---- MODULE Spec2Model ----
(***************************************************************************)
(* A model of the research-automation pipeline: the Store                  *)
(* (KnowledgeDatabase), the PaperAnalyzer, the IdeaGenerator and the       *)
(* DatasetFinder.                                                          *)
(*                                                                         *)
(* Conventions                                                             *)
(*  - A JavaScript string whose characters matter (it is split, trimmed,   *)
(*    case-folded, searched or concatenated) is a sequence of              *)
(*    one-character strings; a string that is only stored and compared is  *)
(*    a TLA+ string.                                                       *)
(*  - An optional value (a JSON field that may be missing, a nullable      *)
(*    column, null/undefined) is a sequence of length 0 or 1: <<>> is      *)
(*    absent/NULL, <<v>> is the value v.                                   *)
(*  - A table is the sequence of its rows in insertion order.  No          *)
(*    statement of the program deletes a row, so the AUTOINCREMENT id of   *)
(*    a row is its position.                                               *)
(*  - REAL scores are exact rationals; the composite score is kept         *)
(*    multiplied by 100 (see Scale).                                       *)
(***************************************************************************)
EXTENDS Integers, Sequences, FiniteSets, TLC

VARIABLES
  papers,            \* table papers
  analysis_results,  \* table analysis_results
  research_ideas,    \* table research_ideas
  datasets,          \* table datasets
  success_patterns,  \* table success_patterns
  call               \* the last operation: its arguments and its outcome

vars == <<papers, analysis_results, research_ideas, datasets, success_patterns, call>>

tables == <<papers, analysis_results, research_ideas, datasets, success_patterns>>

(***************************************************************************)
(* Optional values.                                                        *)
(***************************************************************************)
None == <<>>

Some(v) == <<v>>

IsSome(o) == Len(o) = 1

Get(o) == o[1]

\* JavaScript `o || d` for an optional number: 0 is falsy as well as undefined.
OrNum(o, d) == IF IsSome(o) /\ Get(o) # 0 THEN Get(o) ELSE d

Range(s) == {s[i] : i \in 1..Len(s)}

Min(a, b) == IF a < b THEN a ELSE b

(***************************************************************************)
(* Store: KnowledgeDatabase.                                               *)
(***************************************************************************)
NoCall == [op |-> "none"]

\* createTables: the five tables exist and are empty.
createTables ==
  /\ papers = <<>>
  /\ analysis_results = <<>>
  /\ research_ideas = <<>>
  /\ datasets = <<>>
  /\ success_patterns = <<>>

\* UNIQUE(title, journal): the rows of `rows` the new paper p conflicts with.
PaperConflictTitleOnly(rows, p) ==
  \E i \in 1..Len(rows) : rows[i].title = p.title

PaperConflict(rows, p) ==
  \E i \in 1..Len(rows) : rows[i].title = p.title /\ rows[i].journal = p.journal

\* The row INSERT ... INTO papers writes for the object `p`: abstract || '',
\* pdfPath || null, citations || 0; the five analysis columns are not listed in
\* the statement and stay NULL.
PaperRow(id, p) ==
  [id |-> id,
   title |-> p.title,
   journal |-> p.journal,
   abstract |-> IF IsSome(p.abstract) THEN Get(p.abstract) ELSE <<>>,
   pdf_path |-> p.pdfPath,
   citations |-> OrNum(p.citations, 0),
   methodology |-> None,
   data_sources |-> None,
   analysis_methods |-> None,
   key_findings |-> None,
   theoretical_framework |-> None]

\* INSERT OR IGNORE INTO papers: a conflicting row is skipped without an error
\* (changes = 0), otherwise the row is appended with the next id.
insertPaperRows(rows, p) ==
  IF PaperConflict(rows, p) THEN rows ELSE Append(rows, PaperRow(Len(rows) + 1, p))

insertPaperChanges(rows, p) == IF PaperConflict(rows, p) THEN 0 ELSE 1

(***************************************************************************)
(* Inputs of the Store specification.                                      *)
(***************************************************************************)
MaxPapers == 3

Titles == {"Brand Love", "Price Fairness"}

Journals == {"Journal of Marketing", "Marketing Science"}

\* "abc": an abstract text
AbstractA == <<"a", "b", "c">>

PaperInputs ==
  [title : Titles, journal : Journals, abstract : {None, Some(AbstractA)},
   pdfPath : {None}, citations : {None}]

\* KnowledgeDatabase.insertPaper(p)
InsertPaper(p) ==
  /\ Len(papers) < MaxPapers \/ PaperConflict(papers, p)
  /\ papers' = insertPaperRows(papers, p)
  /\ call' = [op |-> "insertPaper", arg |-> p, threw |-> FALSE,
              changes |-> insertPaperChanges(papers, p)]
  /\ UNCHANGED <<analysis_results, research_ideas, datasets, success_patterns>>

InitStore == createTables /\ call = NoCall

NextStore == \E p \in PaperInputs : InsertPaper(p)

SpecStore == InitStore /\ [][NextStore]_vars

RowsWithKey(rows, t, j) == {i \in 1..Len(rows) : rows[i].title = t /\ rows[i].journal = j}

\* C1: insertPaper is idempotent under an identical (title, journal) pair.
\* After any insertPaper(p) exactly one row carries p's (title, journal); a call
\* that finds the pair already stored changes nothing, reports changes = 0 and
\* raises no error; and every row stored before the call is still there,
\* field for field.
C1_InsertPaperIdempotent ==
  [][call'.op = "insertPaper" =>
       LET p == call'.arg IN
       /\ Cardinality(RowsWithKey(papers', p.title, p.journal)) = 1
       /\ Len(papers') >= Len(papers)
       /\ \A i \in 1..Len(papers) : papers'[i] = papers[i]
       /\ ~call'.threw
       /\ RowsWithKey(papers, p.title, p.journal) # {} =>
            papers' = papers /\ call'.changes = 0
       /\ RowsWithKey(papers, p.title, p.journal) = {} =>
            Len(papers') = Len(papers) + 1 /\ call'.changes = 1]_vars

\* Witness of C1: a second insert of a stored pair, with a different abstract,
\* was ignored and the stored row kept its own abstract.
C1_Witness ==
  /\ call.op = "insertPaper"
  /\ call.changes = 0
  /\ \E i \in 1..Len(papers) :
       /\ papers[i].title = call.arg.title
       /\ papers[i].journal = call.arg.journal
       /\ papers[i].abstract = <<>>
       /\ call.arg.abstract = Some(AbstractA)

(***************************************************************************)
(* JavaScript strings as character sequences.                              *)
(***************************************************************************)

UpperCase == <<"A", "B", "C", "D", "E", "F", "G", "H", "I", "J", "K", "L", "M", "N", "O", "P", "Q", "R", "S", "T", "U", "V", "W", "X", "Y", "Z">>

LowerCase == <<"a", "b", "c", "d", "e", "f", "g", "h", "i", "j", "k", "l", "m", "n", "o", "p", "q", "r", "s", "t", "u", "v", "w", "x", "y", "z">>

\* String.prototype.toLowerCase, one character
toLowerCaseChar(c) ==
  IF \E i \in 1..Len(UpperCase) : UpperCase[i] = c
  THEN LowerCase[CHOOSE i \in 1..Len(UpperCase) : UpperCase[i] = c]
  ELSE c

\* String.prototype.toLowerCase
toLowerCase(s) == [i \in 1..Len(s) |-> toLowerCaseChar(s[i])]

\* the white space and line terminators String.prototype.trim strips
WhiteSpace == {" ", "\t", "\n", "\r"}

\* String.prototype.trim
trim(s) ==
  LET ink == {i \in 1..Len(s) : s[i] \notin WhiteSpace} IN
  IF ink = {} THEN <<>>
  ELSE SubSeq(s, CHOOSE i \in ink : \A j \in ink : i <= j,
                 CHOOSE i \in ink : \A j \in ink : i >= j)

\* String.prototype.startsWith
startsWith(s, p) == Len(p) <= Len(s) /\ SubSeq(s, 1, Len(p)) = p

\* String.prototype.includes
includes(s, p) == \E i \in 0..(Len(s) - Len(p)) : SubSeq(s, i + 1, i + Len(p)) = p

\* String.prototype.substring(0, n)
substring0(s, n) == SubSeq(s, 1, Min(n, Len(s)))

RECURSIVE splitFrom(_, _, _)
\* the lines of s from position i on, `cur` being the line read so far
splitFrom(s, i, cur) ==
  IF i > Len(s) THEN <<cur>>
  ELSE IF s[i] = "\n" THEN <<cur>> \o splitFrom(s, i + 1, <<>>)
  ELSE splitFrom(s, i + 1, Append(cur, s[i]))

\* text.split('\n'): the empty text has the one line ''
splitLines(text) == splitFrom(text, 1, <<>>)

RECURSIVE joinLines(_)
\* lines.join('\n')
joinLines(lines) ==
  IF Len(lines) = 0 THEN <<>>
  ELSE IF Len(lines) = 1 THEN lines[1]
  ELSE lines[1] \o <<"\n">> \o joinLines(Tail(lines))

(***************************************************************************)
(* Extractor: PaperAnalyzer.extractSection and analyzePaperStructure.      *)
(***************************************************************************)

s_abstract == <<"a", "b", "s", "t", "r", "a", "c", "t">>

s_summary == <<"s", "u", "m", "m", "a", "r", "y">>

s_introduction == <<"i", "n", "t", "r", "o", "d", "u", "c", "t", "i", "o", "n">>

s_1_introduction == <<"1", ".", " ", "i", "n", "t", "r", "o", "d", "u", "c", "t", "i", "o", "n">>

s_method == <<"m", "e", "t", "h", "o", "d">>

s_methodology == <<"m", "e", "t", "h", "o", "d", "o", "l", "o", "g", "y">>

s_research_design == <<"r", "e", "s", "e", "a", "r", "c", "h", " ", "d", "e", "s", "i", "g", "n">>

s_data_and_methods == <<"d", "a", "t", "a", " ", "a", "n", "d", " ", "m", "e", "t", "h", "o", "d", "s">>

s_results == <<"r", "e", "s", "u", "l", "t", "s">>

s_findings == <<"f", "i", "n", "d", "i", "n", "g", "s">>

s_analysis == <<"a", "n", "a", "l", "y", "s", "i", "s">>

s_discussion == <<"d", "i", "s", "c", "u", "s", "s", "i", "o", "n">>

s_conclusion == <<"c", "o", "n", "c", "l", "u", "s", "i", "o", "n">>

s_references == <<"r", "e", "f", "e", "r", "e", "n", "c", "e", "s">>

s_bibliography == <<"b", "i", "b", "l", "i", "o", "g", "r", "a", "p", "h", "y">>

\* the section names of analyzePaperStructure
SectionNames ==
  {"abstract", "introduction", "methodology", "results", "discussion", "references"}

\* the keyword list analyzePaperStructure passes for each section
SectionKeywords(name) ==
  CASE name = "abstract" -> {s_abstract, s_summary}
    [] name = "introduction" -> {s_introduction, s_1_introduction}
    [] name = "methodology" ->
         {s_method, s_methodology, s_research_design, s_data_and_methods}
    [] name = "results" -> {s_results, s_findings, s_analysis}
    [] name = "discussion" -> {s_discussion, s_conclusion}
    [] name = "references" -> {s_references, s_bibliography}

\* the alternatives of /^(introduction|method|results|discussion|references|conclusion)/i
MajorSections ==
  {s_introduction, s_method, s_results, s_discussion, s_references, s_conclusion}

\* keywords.some(kw => line.startsWith(kw) || line === kw)
StartsSection(line, keywords) ==
  \E kw \in keywords : startsWith(line, kw) \/ line = kw

\* line.match(/^(...)/i) && !keywords.some(kw => line.includes(kw))
IsNextMajorSectionIgnoringKeywords(line, keywords) ==
  \E h \in MajorSections : startsWith(line, h)

IsNextMajorSection(line, keywords) ==
  /\ \E h \in MajorSections : startsWith(line, h)
  /\ ~ \E kw \in keywords : includes(line, kw)

RECURSIVE extractLoop(_, _, _, _, _)
\* the for loop of extractSection from line i on
extractLoop(lines, keywords, i, capturing, sectionText) ==
  IF i > Len(lines) THEN sectionText
  ELSE LET line == trim(toLowerCase(lines[i])) IN
       IF StartsSection(line, keywords)
       THEN extractLoop(lines, keywords, i + 1, TRUE, sectionText)
       ELSE IF capturing /\ IsNextMajorSection(line, keywords)
       THEN sectionText
       ELSE IF capturing
       THEN extractLoop(lines, keywords, i + 1, capturing,
                        sectionText \o lines[i] \o <<"\n">>)
       ELSE extractLoop(lines, keywords, i + 1, capturing, sectionText)

\* an extractSection that returns null for a section it did not find
extractSectionOrNull(text, keywords) ==
  LET found == trim(extractLoop(splitLines(text), keywords, 1, FALSE, <<>>))
  IN  IF found = <<>> THEN <<"(null)">> ELSE found

\* PaperAnalyzer.extractSection(text, keywords)
extractSection(text, keywords) ==
  trim(extractLoop(splitLines(text), keywords, 1, FALSE, <<>>))

\* PaperAnalyzer.analyzePaperStructure(text)
analyzePaperStructure(text) ==
  [name \in SectionNames |-> extractSection(text, SectionKeywords(name))]

(***************************************************************************)
(* Inputs of the Extractor specification: texts of up to MaxLines lines    *)
(* drawn from LinePool.                                                    *)
(***************************************************************************)
MaxLines == 3

l_Methodology == <<"M", "e", "t", "h", "o", "d", "o", "l", "o", "g", "y">>

l_body == <<" ", "b", "o", "d", "y", " ">>

l_Results == <<"R", "e", "s", "u", "l", "t", "s">>

l_ResultsOfMethod == <<"R", "e", "s", "u", "l", "t", "s", " ", "o", "f", " ", "m", "e", "t", "h", "o", "d">>

l_Discussion == <<"D", "i", "s", "c", "u", "s", "s", "i", "o", "n">>

l_MethodsUsed == <<"M", "e", "t", "h", "o", "d", "s", " ", "u", "s", "e", "d">>

LinePool ==
  {l_Methodology, l_body, l_Results, l_ResultsOfMethod, l_Discussion, l_MethodsUsed, <<>>}

\* the texts of exactly n lines
TextsOfLines(n) == {joinLines(ls) : ls \in [1..n -> LinePool]}

Texts == UNION {TextsOfLines(n) : n \in 0..MaxLines}

\* extractSection(text, keywords) as analyzePaperStructure calls it for the
\* section call.section, on the arguments the initial state chose
ExtractSection ==
  /\ call.op = "args"
  /\ call' = [op |-> "extractSection", text |-> call.text, section |-> call.section,
              ret |-> extractSection(call.text, SectionKeywords(call.section))]
  /\ UNCHANGED tables

InitExtract ==
  /\ createTables
  /\ \E text \in Texts, name \in SectionNames :
       call = [op |-> "args", text |-> text, section |-> name]

NextExtract == ExtractSection

SpecExtract == InitExtract /\ [][NextExtract]_vars

\* the case-folded, trimmed lines of a text, as the loop tests them
FoldedLines(text) ==
  LET ls == splitLines(text) IN [i \in 1..Len(ls) |-> trim(toLowerCase(ls[i]))]

\* the positions of the folded lines fl that start with one of the keywords
HeaderLines(fl, keywords) == {i \in 1..Len(fl) : StartsSection(fl[i], keywords)}

\* the positions of the folded lines fl that start with a major section header
\* and contain none of the keywords
StopLines(fl, keywords) ==
  {i \in 1..Len(fl) :
     /\ \E m \in MajorSections : startsWith(fl[i], m)
     /\ \A kw \in keywords : ~includes(fl[i], kw)}

SetMin(S) == CHOOSE x \in S : \A y \in S : x <= y

\* the subsequence of a list at the positions of P, in order
RECURSIVE SelectAt(_, _, _)
SelectAt(lines, P, i) ==
  IF i > Len(lines) THEN <<>>
  ELSE (IF i \in P THEN <<lines[i]>> ELSE <<>>) \o SelectAt(lines, P, i + 1)

\* what the stop rule says the section is: the lines after the first header
\* and before the first later stop line that are not header lines themselves,
\* newline-joined and trimmed as a whole
ExpectedSection(text, keywords) ==
  LET ls == splitLines(text)
      fl == FoldedLines(text)
      H == HeaderLines(fl, keywords)
  IN  IF H = {} THEN <<>>
      ELSE LET S == {i \in StopLines(fl, keywords) : i > SetMin(H)}
               last == IF S = {} THEN Len(ls) ELSE SetMin(S) - 1
           IN  trim(joinLines(SelectAt(ls, (SetMin(H) + 1 .. last) \ H, 1)))

StableDescOrder(keys) ==
  LET n == Len(keys)
      before(j, i) == keys[j] > keys[i] \/ (keys[j] = keys[i] /\ j < i)
      pos(i) == 1 + Cardinality({j \in 1..n : before(j, i)})
  IN  [p \in 1..n |-> CHOOSE i \in 1..n : pos(i) = p]

\* the distinct terms of a tokenized document, in order of first occurrence
RECURSIVE DistinctTerms(_)
DistinctTerms(tokens) ==
  IF tokens = <<>> THEN <<>>
  ELSE LET front == SubSeq(tokens, 1, Len(tokens) - 1)
           t == tokens[Len(tokens)]
       IN  IF t \in Range(front) THEN DistinctTerms(front)
           ELSE Append(DistinctTerms(front), t)

\* 1000 * (1 + ln(N / (1 + df))) with N = 1 document and df = 1
IdfMilli == 307

\* TfIdf.tfidf(term, 0) in thousandths: the term's count in the document times idf
tfidf(term, tokens) ==
  Cardinality({i \in 1..Len(tokens) : tokens[i] = term}) * IdfMilli

\* TfIdf.listTerms(0): every term of the document with its tf-idf, highest first
listTerms(tokens) ==
  LET terms == DistinctTerms(tokens)
      order == StableDescOrder([i \in 1..Len(terms) |-> tfidf(terms[i], tokens)])
  IN  [p \in 1..Len(terms) |->
         [term |-> terms[order[p]], tfidf |-> tfidf(terms[order[p]], tokens)]]

\* the number of keywords extractKeywords keeps
KeywordLimit == 20

\* extractKeywords with the bound test `index <= 20`
extractKeywordsOffByOne(tokens) ==
  LET items == listTerms(tokens) IN
  [i \in 1..Min(KeywordLimit + 1, Len(items)) |->
     [term |-> items[i].term, score |-> items[i].tfidf]]

\* PaperAnalyzer.extractKeywords(text): the items of listTerms(0) whose index is
\* below 20, as {term, score}
extractKeywords(tokens) ==
  LET items == listTerms(tokens) IN
  [i \in 1..Min(KeywordLimit, Len(items)) |->
     [term |-> items[i].term, score |-> items[i].tfidf]]

(***************************************************************************)
(* Inputs of the keyword specification: tokenized documents of up to       *)
(* MaxTerms distinct terms (terms are numbered), the term counts following *)
(* one of the CountPatterns.                                               *)
(***************************************************************************)
MaxTerms == 22

CountPatterns == 1..5

\* how often term i occurs in the document of n terms under pattern k
TermCount(i, n, k) ==
  CASE k = 1 -> 1
    [] k = 2 -> i
    [] k = 3 -> n + 1 - i
    [] k = 4 -> (i % 3) + 1
    [] k = 5 -> IF i = n THEN 3 ELSE 1

RECURSIVE Repeat(_, _)
Repeat(t, c) == IF c = 0 THEN <<>> ELSE <<t>> \o Repeat(t, c - 1)

RECURSIVE DocumentUpTo(_, _, _)
\* terms 1..m of the document of n terms under pattern k, term by term
DocumentUpTo(m, n, k) ==
  IF m = 0 THEN <<>> ELSE DocumentUpTo(m - 1, n, k) \o Repeat(m, TermCount(m, n, k))

Documents == {DocumentUpTo(n, n, k) : n \in 0..MaxTerms, k \in CountPatterns}

ExtractKeywords ==
  /\ call.op = "args"
  /\ call' = [op |-> "extractKeywords", tokens |-> call.tokens,
              ret |-> extractKeywords(call.tokens)]
  /\ UNCHANGED tables

InitKeywords ==
  /\ createTables
  /\ \E doc \in Documents : call = [op |-> "args", tokens |-> doc]

NextKeywords == ExtractKeywords

SpecKeywords == InitKeywords /\ [][NextKeywords]_vars

\* C4: extractKeywords returns at most 20 terms, each with a non-negative
\* weight, in descending order of weight; they are distinct terms of the
\* document and no term left out weighs more than one returned (as many as
\* the document has, up to 20); the empty document gives the empty list.
C4_KeywordsTop20 ==
  call.op = "extractKeywords" =>
    LET ret == call.ret
        doc == call.tokens
        kept == {ret[i].term : i \in 1..Len(ret)}
    IN  /\ Len(ret) <= 20
        /\ Len(ret) = Min(20, Cardinality(Range(doc)))
        /\ \A i \in 1..Len(ret) :
             /\ ret[i].score >= 0
             /\ ret[i].term \in Range(doc)
             /\ ret[i].score = tfidf(ret[i].term, doc)
        /\ \A i, j \in 1..Len(ret) :
             /\ i < j => ret[i].score >= ret[j].score
             /\ i # j => ret[i].term # ret[j].term
        /\ \A t \in Range(doc) \ kept : \A i \in 1..Len(ret) :
             tfidf(t, doc) <= ret[i].score
        /\ doc = <<>> => ret = <<>>

\* Witness of C4: a document of more than 20 distinct terms of different
\* weights gave 20 keywords, and its most frequent term, the last in the
\* document, comes first.
C4_Witness ==
  /\ call.op = "extractKeywords"
  /\ Cardinality(Range(call.tokens)) > 20
  /\ Len(call.ret) = 20
  /\ call.ret[1].term = call.tokens[Len(call.tokens)]
  /\ call.ret[1].score > call.ret[20].score

(***************************************************************************)
(* Dataset Matcher: DatasetFinder.deduplicateDatasets.                     *)
(***************************************************************************)
\* the value undefined where a string is expected
Undefined == <<"(undefined)">>

s_undefined == <<"u", "n", "d", "e", "f", "i", "n", "e", "d">>

\* `${v}`: a string is itself, undefined prints as "undefined"
templateString(v) == IF v = Undefined THEN s_undefined ELSE v

\* `${dataset.name}_${dataset.source}`.toLowerCase()
DatasetKey(dataset) ==
  toLowerCase(templateString(dataset.name) \o <<"_">> \o templateString(dataset.source))

RECURSIVE deduplicateLoop(_, _, _, _)
\* the for loop of deduplicateDatasets from position i on
deduplicateLoop(ds, i, seen, unique) ==
  IF i > Len(ds) THEN unique
  ELSE IF DatasetKey(ds[i]) \notin seen
  THEN deduplicateLoop(ds, i + 1, seen \cup {DatasetKey(ds[i])}, Append(unique, ds[i]))
  ELSE deduplicateLoop(ds, i + 1, seen, unique)

\* DatasetFinder.deduplicateDatasets(datasets)
deduplicateDatasets(ds) == deduplicateLoop(ds, 1, {}, <<>>)

(***************************************************************************)
(* Inputs of the deduplication specification: lists of up to MaxCandidates *)
(* candidates.                                                             *)
(***************************************************************************)
MaxCandidates == 3

n_a == <<"a">>

n_A == <<"A">>

n_a_b == <<"a", "_", "b">>

src_c == <<"c">>

src_b_c == <<"b", "_", "c">>

\* a candidate as the searches build it; url tells two candidates of one
\* (name, source) apart
Candidates ==
  [name : {n_a, n_A, n_a_b}, source : {src_c, src_b_c},
   url : {"u1", "u2"}]

CandidateLists == UNION {[1..n -> Candidates] : n \in 0..MaxCandidates}

DeduplicateDatasets ==
  /\ call.op = "args"
  /\ call' = [op |-> "deduplicateDatasets", datasets |-> call.datasets,
              ret |-> deduplicateDatasets(call.datasets)]
  /\ UNCHANGED tables

InitDedup ==
  /\ createTables
  /\ \E ds \in CandidateLists : call = [op |-> "args", datasets |-> ds]

NextDedup == DeduplicateDatasets

SpecDedup == InitDedup /\ [][NextDedup]_vars

\* the case-folded (name, source) pair of a candidate
NormalizedPair(d) == <<toLowerCase(d.name), toLowerCase(d.source)>>

\* C5: deduplicateDatasets returns, in first-occurrence order, exactly the
\* first candidate of every distinct case-folded (name, source) pair:
\* candidates of one pair collapse to the first, candidates of different
\* pairs all remain.
C5_DedupByPair ==
  call.op = "deduplicateDatasets" =>
    LET ds == call.datasets
        first == {i \in 1..Len(ds) :
                    \A j \in 1..(i - 1) : NormalizedPair(ds[j]) # NormalizedPair(ds[i])}
    IN  call.ret = SelectAt(ds, first, 1)

(***************************************************************************)
(* Idea Generator: IdeaGenerator.generateIdeasByStrategy and               *)
(* KnowledgeDatabase.insertResearchIdea.                                   *)
(***************************************************************************)
\* the strategies of generateResearchIdeas, in its order
Strategies == <<"extension", "combination", "gap_filling", "replication", "methodological">>

\* the score an idea gets when the response gives none
DefaultIdeaScore == 70

\* idea.feasibility_score || idea.feasibility || 70
FeasibilityOf(idea) ==
  OrNum(idea.feasibility_score, OrNum(idea.feasibility, DefaultIdeaScore))

\* idea.novelty_score || idea.novelty || 70
NoveltyOf(idea) == OrNum(idea.novelty_score, OrNum(idea.novelty, DefaultIdeaScore))

\* the ideaRecord generateIdeasByStrategy builds from a response idea
IdeaRecord(idea) ==
  [title |-> idea.title,
   feasibilityScore |-> FeasibilityOf(idea),
   noveltyScore |-> NoveltyOf(idea),
   status |-> Some("generated")]

\* research_ideas.title is NOT NULL: the insert of a record without a title fails
IdeaInsertFails(rec) == ~IsSome(rec.title)

\* the row insertResearchIdea writes: status is idea.status || 'generated'
IdeaRow(id, rec) ==
  [id |-> id,
   title |-> Get(rec.title),
   feasibility_score |-> rec.feasibilityScore,
   novelty_score |-> rec.noveltyScore,
   status |-> IF IsSome(rec.status) THEN Get(rec.status) ELSE "generated"]

\* result.ideas || result.research_ideas || [] (an array, even empty, is truthy)
ResponseIdeas(result) ==
  IF IsSome(result.ideas) THEN Get(result.ideas)
  ELSE IF IsSome(result.research_ideas) THEN Get(result.research_ideas)
  ELSE <<>>

\* the number of ideas of the list saved before an insert fails (all of them
\* when none fails)
SavedCount(ideas) ==
  LET bad == {i \in 1..Len(ideas) : IdeaInsertFails(IdeaRecord(ideas[i]))} IN
  IF bad = {} THEN Len(ideas) ELSE (CHOOSE i \in bad : \A j \in bad : i <= j) - 1

\* research_ideas after the save loop over `ideas`
SaveIdeas(rows, ideas) ==
  rows \o [i \in 1..SavedCount(ideas) |-> IdeaRow(Len(rows) + i, IdeaRecord(ideas[i]))]

(***************************************************************************)
(* Inputs of the idea specification: one call of generateIdeasByStrategy   *)
(* with the inference response the initial state chose.                    *)
(***************************************************************************)
MaxIdeasPerResponse == 2

\* ideas as the response may give them
IdeaPool ==
  {[title |-> Some("Idea A"), feasibility_score |-> Some(85), feasibility |-> None,
    novelty_score |-> Some(90), novelty |-> None],
   [title |-> Some("Idea B"), feasibility_score |-> None, feasibility |-> Some(60),
    novelty_score |-> None, novelty |-> Some(65)],
   [title |-> Some("Idea C"), feasibility_score |-> None, feasibility |-> None,
    novelty_score |-> None, novelty |-> None],
   [title |-> Some("Idea D"), feasibility_score |-> Some(0), feasibility |-> None,
    novelty_score |-> Some(0), novelty |-> None],
   [title |-> Some("Idea E"), feasibility_score |-> Some(0), feasibility |-> Some(40),
    novelty_score |-> Some(100), novelty |-> Some(30)],
   [title |-> None, feasibility_score |-> Some(50), feasibility |-> None,
    novelty_score |-> Some(50), novelty |-> None]}

IdeaLists == UNION {[1..n -> IdeaPool] : n \in 0..MaxIdeasPerResponse}

\* the parsed responses: the list under `ideas`, under `research_ideas`, under
\* `research_ideas` beside an empty `ideas`, or under neither
IdeaResponses ==
  {[ideas |-> Some(l), research_ideas |-> None] : l \in IdeaLists}
  \cup {[ideas |-> None, research_ideas |-> Some(l)] : l \in IdeaLists}
  \cup {[ideas |-> Some(<<>>), research_ideas |-> Some(l)] : l \in IdeaLists}
  \cup {[ideas |-> None, research_ideas |-> None]}

\* IdeaGenerator.generateIdeasByStrategy(strategy, topPapers, patterns) with the
\* response call.response (None: the request or JSON.parse threw)
GenerateIdeasByStrategy ==
  /\ call.op = "args" /\ call.for = "generateIdeasByStrategy"
  /\ IF ~IsSome(call.response)
     THEN /\ research_ideas' = research_ideas
          /\ call' = [op |-> "generateIdeasByStrategy", strategy |-> call.strategy,
                      response |-> call.response, requests |-> 1, ret |-> <<>>]
     ELSE LET ideas == ResponseIdeas(Get(call.response)) IN
          /\ research_ideas' = SaveIdeas(research_ideas, ideas)
          /\ call' = [op |-> "generateIdeasByStrategy", strategy |-> call.strategy,
                      response |-> call.response, requests |-> 1,
                      ret |-> IF SavedCount(ideas) = Len(ideas) THEN ideas ELSE <<>>]
  /\ UNCHANGED <<papers, analysis_results, datasets, success_patterns>>

InitIdeas ==
  /\ createTables
  /\ \E s \in Range(Strategies), r \in {None} \cup {Some(x) : x \in IdeaResponses} :
       call = [op |-> "args", for |-> "generateIdeasByStrategy", strategy |-> s,
               response |-> r]

NextIdeas == GenerateIdeasByStrategy

SpecIdeas == InitIdeas /\ [][NextIdeas]_vars

\* the value the response gives for a score under either name, if any
GivenScore(a, b) == IF IsSome(a) THEN a ELSE b

\* C6: after a successful inference call whose ideas all carry a title, every
\* idea of the response's list (`ideas`, or else `research_ideas`) is a
\* research_ideas row with status 'generated' whose feasibility and novelty
\* are the values the response gives (under either name) and 70 exactly when
\* it gives none.
C6_IdeasPersisted ==
  call.op = "generateIdeasByStrategy" /\ IsSome(call.response) =>
    LET r == Get(call.response)
        ideas == IF IsSome(r.ideas) THEN Get(r.ideas)
                 ELSE IF IsSome(r.research_ideas) THEN Get(r.research_ideas)
                 ELSE <<>>
        score(row, a, b) ==
          IF IsSome(GivenScore(a, b)) THEN row = Get(GivenScore(a, b)) ELSE row = 70
    IN  (\A i \in 1..Len(ideas) : IsSome(ideas[i].title)) =>
          /\ Len(research_ideas) = Len(ideas)
          /\ \A i \in 1..Len(ideas) :
               /\ research_ideas[i].status = "generated"
               /\ score(research_ideas[i].feasibility_score,
                        ideas[i].feasibility_score, ideas[i].feasibility)
               /\ score(research_ideas[i].novelty_score,
                        ideas[i].novelty_score, ideas[i].novelty)

(***************************************************************************)
(* Annotator: PaperAnalyzer.analyzePaper with KnowledgeDatabase            *)
(* insertAnalysis and updatePaperMetadata.                                 *)
(***************************************************************************)
\* the composite score is kept in hundredths
Scale == 100

\* the weights of the composite score, in hundredths
W_data_quality == 25

W_methodology_rigor == 20

W_theoretical_contribution == 20

W_novelty == 20

W_impact == 15

\* the composite without the theoretical-contribution term
successScoreOfStoredOnly(a) ==
  OrNum(a.data_quality_score, 0) * W_data_quality
  + OrNum(a.methodology_rigor, 0) * W_methodology_rigor
  + OrNum(a.novelty_score, 0) * W_novelty
  + OrNum(a.impact_potential, 0) * W_impact

\* a composite that weights every sub-score 0.25
successScoreOfEqualWeights(a) ==
  (OrNum(a.data_quality_score, 0) + OrNum(a.methodology_rigor, 0)
   + OrNum(a.theoretical_contribution, 0) + OrNum(a.novelty_score, 0)
   + OrNum(a.impact_potential, 0)) * W_data_quality

\* successScore of analyzePaper, times Scale
successScoreOf(a) ==
  OrNum(a.data_quality_score, 0) * W_data_quality
  + OrNum(a.methodology_rigor, 0) * W_methodology_rigor
  + OrNum(a.theoretical_contribution, 0) * W_theoretical_contribution
  + OrNum(a.novelty_score, 0) * W_novelty
  + OrNum(a.impact_potential, 0) * W_impact

\* the analysisResult object analyzePaper builds
AnalysisResult(paper, a, methodologyAnalysis) ==
  [paperId |-> paper.id,
   successScore |-> successScoreOf(a),
   dataQualityScore |-> OrNum(a.data_quality_score, 0),
   methodologyRigor |-> OrNum(a.methodology_rigor, 0),
   noveltyScore |-> OrNum(a.novelty_score, 0),
   impactScore |-> OrNum(a.impact_potential, 0),
   methodologyDetails |-> methodologyAnalysis]

\* the row insertAnalysis writes
AnalysisRow(id, r) ==
  [id |-> id,
   paper_id |-> r.paperId,
   success_score |-> r.successScore,
   data_quality_score |-> r.dataQualityScore,
   methodology_rigor |-> r.methodologyRigor,
   novelty_score |-> r.noveltyScore,
   impact_score |-> r.impactScore,
   methodology_details |-> r.methodologyDetails]

\* KnowledgeDatabase.insertAnalysis
insertAnalysisRows(rows, r) == Append(rows, AnalysisRow(Len(rows) + 1, r))

\* the length of the excerpts updatePaperMetadata is given
ExcerptLength == 500

\* an UPDATE of the five analysis columns without its WHERE clause
updatePaperMetadataEveryRow(rows, paperId, m, fullText, sections) ==
  [i \in 1..Len(rows) |->
     [rows[i] EXCEPT
        !.methodology = Some(IF IsSome(m.research_design)
                             THEN Get(m.research_design) ELSE ""),
        !.data_sources = Some(m.data_sources),
        !.analysis_methods = Some(m.analytical_methods),
        !.key_findings = Some(substring0(fullText, ExcerptLength)),
        !.theoretical_framework =
           Some(IF IsSome(sections)
                THEN substring0(Get(sections)["introduction"], ExcerptLength)
                ELSE <<>>)]]

\* KnowledgeDatabase.updatePaperMetadata(paperId, metadata) as analyzePaper calls
\* it: UPDATE papers SET the five analysis columns WHERE id = paperId
updatePaperMetadataRows(rows, paperId, m, fullText, sections) ==
  [i \in 1..Len(rows) |->
     IF rows[i].id = paperId
     THEN [rows[i] EXCEPT
             !.methodology = Some(IF IsSome(m.research_design)
                                  THEN Get(m.research_design) ELSE ""),
             !.data_sources = Some(m.data_sources),
             !.analysis_methods = Some(m.analytical_methods),
             !.key_findings = Some(substring0(fullText, ExcerptLength)),
             !.theoretical_framework =
                Some(IF IsSome(sections)
                     THEN substring0(Get(sections)["introduction"], ExcerptLength)
                     ELSE <<>>)]
     ELSE rows[i]]

\* a document with an introduction and a methodology section
PdfWithSections ==
  <<"I", "n", "t", "r", "o", "d", "u", "c", "t", "i", "o", "n", "\n", "i",
  "\n", "M", "e", "t", "h", "o", "d", "s", "\n", "m", "\n", "R", "e", "s",
  "u", "l", "t", "s", "\n", "r">>

\* a document without section headers
PdfPlain == <<"p", "l", "a", "i", "n">>

\* the texts a document may hold
PdfTexts == {PdfWithSections, PdfPlain}

\* analyzePaperStructure on each of these texts
StructureOfPdf == [t \in PdfTexts |-> analyzePaperStructure(t)]

\* fullText of analyzePaper after its first two steps, the abstract never used
FullTextOfPdfOnly(paper, env) ==
  IF IsSome(paper.pdf_path) /\ env.fileExists /\ IsSome(env.pdfText)
  THEN Get(env.pdfText)
  ELSE <<>>

\* fullText of analyzePaper after its first two steps: the PDF text when the
\* paper has a pdf_path, the file exists and text comes out of it, else the
\* abstract
FullTextOf(paper, env) ==
  IF IsSome(paper.pdf_path) /\ env.fileExists /\ IsSome(env.pdfText)
     /\ Get(env.pdfText) # <<>>
  THEN Get(env.pdfText)
  ELSE paper.abstract

\* sections of analyzePaper: only from a PDF text
SectionsOf(paper, env) ==
  IF IsSome(paper.pdf_path) /\ env.fileExists /\ IsSome(env.pdfText)
     /\ Get(env.pdfText) # <<>>
  THEN Some(StructureOfPdf[Get(env.pdfText)])
  ELSE None

\* sections?.methodology is a non-empty string
HasMethodologySection(sections) ==
  IsSome(sections) /\ Get(sections)["methodology"] # <<>>

\* analyzeMethodology with a catch that returns an empty analysis in place
\* of null
analyzeMethodologyEmptyOnError(env) ==
  IF IsSome(env.methodology) THEN env.methodology
  ELSE Some([research_design |-> None, data_sources |-> "[]", analytical_methods |-> "[]"])

\* analyzeMethodology: the parsed response, or null from its catch
analyzeMethodology(env) == env.methodology

\* an assessment without any field
EmptyAssessment ==
  [data_quality_score |-> None, methodology_rigor |-> None,
   theoretical_contribution |-> None, novelty_score |-> None, impact_potential |-> None]

\* assessSuccessFactors with a catch that returns {} in place of null
assessSuccessFactorsEmptyOnError(env) ==
  IF IsSome(env.assessment) THEN env.assessment ELSE Some(EmptyAssessment)

\* assessSuccessFactors: the parsed response, or null from its catch
assessSuccessFactors(env) == env.assessment

\* the outcome of analyzePaper(paper) in the environment env: the text
\* analysed, the inference requests issued, the value returned (None is null)
\* and the tables after it
analyzePaperOutcome(paper, env) ==
  LET fullText == FullTextOf(paper, env)
      sections == SectionsOf(paper, env)
      askMethodology == HasMethodologySection(sections)
      methodologyAnalysis == IF askMethodology THEN analyzeMethodology(env) ELSE None
      successAssessment == assessSuccessFactors(env)
      result == AnalysisResult(paper, Get(successAssessment), methodologyAnalysis)
      requests == (IF askMethodology THEN <<"methodology">> ELSE <<>>) \o <<"success">>
  IN  IF fullText = <<>>
      THEN [fullText |-> fullText, requests |-> <<>>, ret |-> None,
            analysis_results |-> analysis_results, papers |-> papers]
      ELSE IF ~IsSome(successAssessment)
      THEN [fullText |-> fullText, requests |-> requests, ret |-> None,
            analysis_results |-> analysis_results, papers |-> papers]
      ELSE [fullText |-> fullText, requests |-> requests, ret |-> Some(result),
            analysis_results |-> insertAnalysisRows(analysis_results, result),
            papers |-> IF IsSome(methodologyAnalysis)
                       THEN updatePaperMetadataRows(papers, paper.id,
                              Get(methodologyAnalysis), fullText, sections)
                       ELSE papers]

(***************************************************************************)
(* Inputs of the analysis specification.                                   *)
(***************************************************************************)
MaxAnalyses == 1

\* the papers collected: without any text, with an abstract only, with an
\* abstract and a document
AnalysisPapers ==
  {[title |-> "No Text", journal |-> "Journal of Marketing", abstract |-> None,
    pdfPath |-> None, citations |-> None],
   [title |-> "Abstract Only", journal |-> "Journal of Marketing",
    abstract |-> Some(AbstractA), pdfPath |-> None, citations |-> Some(12)],
   [title |-> "With Document", journal |-> "Marketing Science",
    abstract |-> Some(AbstractA), pdfPath |-> Some("downloads/doc.pdf"),
    citations |-> Some(3)]}

\* what reading the document gives: no file, a file that cannot be read, an
\* empty text, a text
PdfOutcomes ==
  {[fileExists |-> FALSE, pdfText |-> None],
   [fileExists |-> TRUE, pdfText |-> None],
   [fileExists |-> TRUE, pdfText |-> Some(<<>>)],
   [fileExists |-> TRUE, pdfText |-> Some(PdfWithSections)],
   [fileExists |-> TRUE, pdfText |-> Some(PdfPlain)]}

\* parsed methodology responses; None: the request or JSON.parse failed
MethodologyResponses ==
  {None,
   Some([research_design |-> Some("survey"), data_sources |-> "[\"panel\"]",
         analytical_methods |-> "[\"SEM\"]"]),
   Some([research_design |-> None, data_sources |-> "[]", analytical_methods |-> "[]"])}

Assessment(dq, mr, tc, nov, imp) ==
  [data_quality_score |-> dq, methodology_rigor |-> mr, theoretical_contribution |-> tc,
   novelty_score |-> nov, impact_potential |-> imp]

\* parsed assessment responses; None: the request or JSON.parse failed
AssessmentResponses ==
  {None,
   Some(Assessment(Some(80), Some(70), None, Some(60), Some(50))),
   Some(Assessment(Some(80), Some(70), Some(90), Some(60), Some(50))),
   Some(Assessment(None, None, None, None, None)),
   Some(Assessment(Some(100), Some(100), Some(100), Some(100), Some(100))),
   Some(Assessment(Some(0), Some(40), Some(0), Some(100), None))}

\* the environments of one analyzePaper(paper) call: a document is read only
\* when the paper has a pdf_path, a methodology response is given only when a
\* methodology request is made
AnalysisEnvs(paper) ==
  {[fileExists |-> o.fileExists, pdfText |-> o.pdfText, methodology |-> m,
    assessment |-> a] :
     o \in IF IsSome(paper.pdf_path) THEN PdfOutcomes
           ELSE {[fileExists |-> FALSE, pdfText |-> None]},
     m \in MethodologyResponses,
     a \in AssessmentResponses}

\* PaperAnalyzer.analyzePaper(paper), paper a row of the papers table
AnalyzePaper(i, env) ==
  /\ Len(analysis_results) < MaxAnalyses
  /\ LET out == analyzePaperOutcome(papers[i], env) IN
     /\ analysis_results' = out.analysis_results
     /\ papers' = out.papers
     /\ call' = [op |-> "analyzePaper", paper |-> papers[i], env |-> env,
                 fullText |-> out.fullText, requests |-> out.requests,
                 ret |-> out.ret, threw |-> FALSE]
  /\ UNCHANGED <<research_ideas, datasets, success_patterns>>

InitAnalyze == createTables /\ call = NoCall

NextAnalyze ==
  \/ \E p \in AnalysisPapers : analysis_results = <<>> /\ InsertPaper(p)
  \/ \E i \in 1..Len(papers) : \E env \in AnalysisEnvs(papers[i]) :
       /\ IsSome(env.methodology) => HasMethodologySection(SectionsOf(papers[i], env))
       /\ AnalyzePaper(i, env)

SpecAnalyze == InitAnalyze /\ [][NextAnalyze]_vars

\* C2 as stated: the stored success_score of every analysis row is the
\* weighted sum of the four stored sub-scores with weights 0.25, 0.20, 0.20
\* and 0.15 (scores in hundredths).
C2_Original ==
  \A i \in 1..Len(analysis_results) :
    analysis_results[i].success_score =
      25 * analysis_results[i].data_quality_score
      + 20 * analysis_results[i].methodology_rigor
      + 20 * analysis_results[i].novelty_score
      + 15 * analysis_results[i].impact_score

\* C2 (amended): the row analyzePaper persists carries the weighted sum of the
\* five sub-scores of the assessment, a missing one counting 0: its
\* success_score is the sum of the four stored columns weighted 0.25, 0.20,
\* 0.20 and 0.15, plus 0.20 times the theoretical_contribution of the
\* response, which is not stored; (80, 70, 60, 50) without a theoretical
\* contribution gives 53.5.
C2_CompositeScore ==
  call.op = "analyzePaper" /\ IsSome(call.ret) =>
    LET row == analysis_results[Len(analysis_results)]
        a == Get(call.env.assessment)
        given(o) == IF IsSome(o) THEN Get(o) ELSE 0
    IN  /\ row.data_quality_score = given(a.data_quality_score)
        /\ row.methodology_rigor = given(a.methodology_rigor)
        /\ row.novelty_score = given(a.novelty_score)
        /\ row.impact_score = given(a.impact_potential)
        /\ row.success_score =
             25 * row.data_quality_score + 20 * row.methodology_rigor
             + 20 * row.novelty_score + 15 * row.impact_score
             + 20 * given(a.theoretical_contribution)
        /\ Get(call.ret).successScore = row.success_score
        /\ (a = Assessment(Some(80), Some(70), None, Some(60), Some(50))
              => row.success_score = 5350)

\* Witness of C2: an assessment with theoretical_contribution 90 beside
\* (80, 70, 60, 50) was persisted with the score 71.5.
C2_Witness ==
  /\ call.op = "analyzePaper"
  /\ IsSome(call.ret)
  /\ call.env.assessment = Some(Assessment(Some(80), Some(70), Some(90), Some(60), Some(50)))
  /\ analysis_results[Len(analysis_results)].success_score = 7150

\* C7: analyzePaper on a paper with an empty abstract and no document returns
\* null, issues no inference request and writes nothing; on a paper with an
\* abstract and no document it analyses the abstract, asks only for the
\* success assessment and, when that succeeds, appends exactly one analysis
\* row, linked to the paper, and returns it; when it fails nothing is written.
C7_TextFallback ==
  [][call'.op = "analyzePaper" /\ ~IsSome(call'.paper.pdf_path) =>
       IF call'.paper.abstract = <<>>
       THEN /\ call'.ret = None
            /\ call'.requests = <<>>
            /\ ~call'.threw
            /\ tables' = tables
       ELSE /\ call'.fullText = call'.paper.abstract
            /\ call'.requests = <<"success">>
            /\ ~call'.threw
            /\ UNCHANGED <<papers, research_ideas, datasets, success_patterns>>
            /\ IF IsSome(call'.env.assessment)
               THEN /\ IsSome(call'.ret)
                    /\ Len(analysis_results') = Len(analysis_results) + 1
                    /\ SubSeq(analysis_results', 1, Len(analysis_results)) = analysis_results
                    /\ analysis_results'[Len(analysis_results')].paper_id = call'.paper.id
                    /\ Get(call'.ret).paperId = call'.paper.id
               ELSE /\ call'.ret = None
                    /\ analysis_results' = analysis_results]_vars

\* Witness of C7: with the paper without text and the paper with an abstract
\* only both stored, the second was analysed from its abstract and its one
\* analysis row is stored.
C7_Witness ==
  /\ call.op = "analyzePaper"
  /\ call.paper.title = "Abstract Only"
  /\ call.fullText = AbstractA
  /\ IsSome(call.ret)
  /\ \E i \in 1..Len(papers) : papers[i].title = "No Text"
  /\ Len(analysis_results) = 1
  /\ analysis_results[1].paper_id = call.paper.id

\* C8: when the inference capability fails during assessSuccessFactors, the
\* failure is not thrown: analyzePaper returns null and no table changes (no
\* analysis row, no paper field), whatever the methodology analysis gave.
C8_AssessmentMandatory ==
  [][/\ call'.op = "analyzePaper"
     /\ call'.requests # <<>>
     /\ ~IsSome(call'.env.assessment)
     => /\ call'.ret = None
        /\ ~call'.threw
        /\ tables' = tables]_vars

\* Witness of C8: the methodology analysis of a document succeeded, the
\* success assessment failed, and analyzePaper returned null.
C8_Witness ==
  /\ call.op = "analyzePaper"
  /\ call.requests = <<"methodology", "success">>
  /\ IsSome(call.env.methodology)
  /\ ~IsSome(call.env.assessment)
  /\ call.ret = None
  /\ analysis_results = <<>>

(***************************************************************************)
(* Dataset Matcher: DatasetFinder.findDatasetsForIdea with its searches,   *)
(* scoreDatasets and KnowledgeDatabase.insertDataset.  A candidate carries *)
(* name, source, url and relevanceScore (None until scored); the columns   *)
(* the searches fill and insertDataset copies through without reading them *)
(* (description, data type, variables, time period, geography,             *)
(* accessibility) are left out.                                            *)
(***************************************************************************)
s_DataGov == <<"D", "a", "t", "a", ".", "g", "o", "v">>

s_HuggingFace == <<"H", "u", "g", "g", "i", "n", "g", " ", "F", "a", "c", "e">>

s_AISuggested == <<"A", "I", " ", "S", "u", "g", "g", "e", "s", "t", "e", "d">>

\* searchDataGov: one candidate per result of the catalog, [] when the
\* request failed
searchDataGov(results) ==
  [i \in 1..Len(results) |->
     [name |-> results[i].title, source |-> s_DataGov, url |-> results[i].name,
      relevanceScore |-> None]]

\* searchKaggle: a placeholder that finds nothing
searchKaggle(results) == <<>>

\* searchHuggingFace: one candidate per dataset of the hub
searchHuggingFace(results) ==
  [i \in 1..Len(results) |->
     [name |-> results[i].id, source |-> s_HuggingFace, url |-> results[i].id,
      relevanceScore |-> None]]

\* searchGeneric: one candidate per suggested dataset; the name is taken as
\* it is, a missing or empty source reads 'AI Suggested'
searchGeneric(results) ==
  [i \in 1..Len(results) |->
     [name |-> results[i].name,
      source |-> IF IsSome(results[i].source) /\ Get(results[i].source) # <<>>
                 THEN Get(results[i].source) ELSE s_AISuggested,
      url |-> IF IsSome(results[i].url) THEN Get(results[i].url) ELSE "",
      relevanceScore |-> None]]

RECURSIVE searchAll(_, _)
\* allDatasets after the loop over the queries from query q on: for each
\* query the results of the four searches, flattened in the order of the
\* Promise.all
searchAll(found, q) ==
  IF q > Len(found) THEN <<>>
  ELSE searchDataGov(found[q].dataGov) \o searchKaggle(found[q].kaggle)
       \o searchHuggingFace(found[q].huggingFace) \o searchGeneric(found[q].generic)
       \o searchAll(found, q + 1)

DefaultRelevance == 50

\* scores[dataset.name] || scores.scores?.[dataset.name] || 50
relevanceOf(scores, name) ==
  LET k == templateString(name)
      own == IF k \in DOMAIN scores.own THEN scores.own[k] ELSE 0
      nested == IF IsSome(scores.scores) /\ k \in DOMAIN Get(scores.scores)
                THEN Get(scores.scores)[k] ELSE 0
  IN  IF own # 0 THEN own ELSE IF nested # 0 THEN nested ELSE DefaultRelevance

\* datasets.sort((a, b) => b.relevanceScore - a.relevanceScore) left out
sortByRelevanceNoSort(ds) == ds

\* datasets.sort((a, b) => b.relevanceScore - a.relevanceScore): descending,
\* candidates of equal score keeping their order
sortByRelevance(ds) ==
  LET n == Len(ds)
      before(j, i) ==
        \/ Get(ds[j].relevanceScore) > Get(ds[i].relevanceScore)
        \/ Get(ds[j].relevanceScore) = Get(ds[i].relevanceScore) /\ j < i
      pos(i) == 1 + Cardinality({j \in 1..n : before(j, i)})
  IN  [p \in 1..n |-> ds[CHOOSE i \in 1..n : pos(i) = p]]

\* scoreDatasets whose catch gives every candidate the default score
scoreDatasetsDefaultOnError(ds, scoring) ==
  IF IsSome(scoring)
  THEN sortByRelevance([i \in 1..Len(ds) |->
         [ds[i] EXCEPT !.relevanceScore = Some(relevanceOf(Get(scoring), ds[i].name))]])
  ELSE [i \in 1..Len(ds) |-> [ds[i] EXCEPT !.relevanceScore = Some(DefaultRelevance)]]

\* scoreDatasets(datasets, idea): scoring is the parsed response of the one
\* inference request, None when the request or the parsing failed
scoreDatasets(ds, scoring) ==
  IF IsSome(scoring)
  THEN sortByRelevance([i \in 1..Len(ds) |->
         [ds[i] EXCEPT !.relevanceScore = Some(relevanceOf(Get(scoring), ds[i].name))]])
  ELSE ds

TopLimit == 10

\* scoredDatasets.slice(0, 10)
topDatasets(scored) == SubSeq(scored, 1, Min(TopLimit, Len(scored)))

\* name is TEXT NOT NULL: an undefined name binds NULL and the insert fails
DatasetInsertFails(d) == d.name = Undefined

\* the row insertDataset adds
DatasetRow(id, d, ideaId) ==
  [id |-> id, name |-> d.name, source |-> d.source, url |-> d.url,
   matched_idea_id |-> ideaId, relevance_score |-> d.relevanceScore]

RECURSIVE saveDatasets(_, _, _, _)
\* the loop over topDatasets from position i on: the rows after it and
\* whether an insert threw, which ends the loop and the call
saveDatasets(rows, top, i, ideaId) ==
  IF i > Len(top) THEN [rows |-> rows, threw |-> FALSE]
  ELSE IF DatasetInsertFails(top[i]) THEN [rows |-> rows, threw |-> TRUE]
  ELSE saveDatasets(Append(rows, DatasetRow(Len(rows) + 1, top[i], ideaId)),
                    top, i + 1, ideaId)

\* the outcome of findDatasetsForIdea(idea) in the environment env
findDatasetsForIdeaOutcome(idea, env) ==
  LET allDatasets == searchAll(env.found, 1)
      uniqueDatasets == deduplicateDatasets(allDatasets)
      scoredDatasets == scoreDatasets(uniqueDatasets, env.scoring)
      top == topDatasets(scoredDatasets)
      saved == saveDatasets(datasets, top, 1, idea.id)
  IN  [allDatasets |-> allDatasets, uniqueDatasets |-> uniqueDatasets,
       scoredDatasets |-> scoredDatasets,
       datasets |-> saved.rows, threw |-> saved.threw,
       ret |-> IF saved.threw THEN None ELSE Some(top)]

(***************************************************************************)
(* Inputs of the dataset specification: one call of findDatasetsForIdea.   *)
(* The searches find the first n datasets of a numbered pool, n up to      *)
(* MaxFound, spread over the queries and, by number, over the catalog, the *)
(* hub and the suggestions; the suggestions may add a copy of the first    *)
(* dataset under another case and a dataset without a name.                *)
(***************************************************************************)
MaxFound == 12

Letters == <<"a", "b", "c", "d", "e", "f", "g", "h", "i", "j", "k", "l", "m", "n">>

FoundName(i) == <<"d", Letters[i]>>

s_data_gov == <<"d", "a", "t", "a", ".", "g", "o", "v">>

\* the numbers lo..hi that leave remainder r modulo 3, ascending
NumbersOf(lo, hi, r) ==
  SelectSeq([j \in 1..(IF hi < lo THEN 0 ELSE hi - lo + 1) |-> lo + j - 1],
            LAMBDA i : i % 3 = r)

CatalogResults(lo, hi) ==
  LET s == NumbersOf(lo, hi, 1)
  IN  [j \in 1..Len(s) |-> [title |-> FoundName(s[j]), name |-> "catalog"]]

HubResults(lo, hi) ==
  LET s == NumbersOf(lo, hi, 2)
  IN  [j \in 1..Len(s) |-> [id |-> FoundName(s[j])]]

Suggestions(lo, hi) ==
  LET s == NumbersOf(lo, hi, 0)
  IN  [j \in 1..Len(s) |->
         [name |-> FoundName(s[j]), source |-> None, url |-> Some("suggested")]]

NamelessSuggestion == [name |-> Undefined, source |-> None, url |-> None]

CopySuggestion == [name |-> <<"D", "a">>, source |-> Some(s_data_gov), url |-> Some("copy")]

\* what the searches of one query find
FoundOfQuery(lo, hi, front, back) ==
  [dataGov |-> CatalogResults(lo, hi), kaggle |-> <<>>,
   huggingFace |-> HubResults(lo, hi),
   generic |-> front \o Suggestions(lo, hi) \o back]

\* what the searches of nq queries find
Found(n, nq, copy, nameless) ==
  LET front == IF nameless THEN <<NamelessSuggestion>> ELSE <<>>
      back == IF copy THEN <<CopySuggestion>> ELSE <<>>
  IN  IF nq = 0 THEN <<>>
      ELSE IF nq = 1 THEN <<FoundOfQuery(1, n, front, back)>>
      ELSE <<FoundOfQuery(1, n \div 2, front, <<>>),
             FoundOfQuery(n \div 2 + 1, n, <<>>, back)>>

FoundNumber(k) == CHOOSE i \in 1..MaxFound : FoundName(i) = k

FoundNames == {FoundName(i) : i \in 1..MaxFound}

\* scoring responses: later datasets scored higher and the key "undefined"
\* highest; no score for any name; scores of 0, omitted scores and ties with
\* the default; scores under a nested "scores" object
ScoringResponses ==
  { [own |-> [k \in FoundNames \cup {s_undefined} |->
                IF k = s_undefined THEN 99 ELSE 5 * FoundNumber(k)],
     scores |-> None],
    [own |-> <<>>, scores |-> None],
    [own |-> [k \in {x \in FoundNames : FoundNumber(x) % 4 # 1} |->
                IF FoundNumber(k) % 4 = 0 THEN 0
                ELSE IF FoundNumber(k) % 4 = 2 THEN 90 - FoundNumber(k)
                ELSE 50],
     scores |-> None],
    [own |-> <<>>,
     scores |-> Some([k \in FoundNames |-> 10 * (FoundNumber(k) % 5)])] }

DatasetIdeas == {[id |-> 1, title |-> "Idea A"], [id |-> 2, title |-> "Idea B"]}

DatasetEnvs ==
  {[found |-> Found(n, nq, copy, nameless), scoring |-> s] :
     n \in 0..MaxFound, nq \in 0..2, copy \in BOOLEAN, nameless \in BOOLEAN,
     s \in {None} \cup {Some(x) : x \in ScoringResponses}}

FindDatasetsForIdea ==
  /\ call.op = "args"
  /\ call.for = "findDatasetsForIdea"
  /\ LET out == findDatasetsForIdeaOutcome(call.idea, call.env)
     IN  /\ datasets' = out.datasets
         /\ call' = [op |-> "findDatasetsForIdea", idea |-> call.idea, env |-> call.env,
                     allDatasets |-> out.allDatasets,
                     uniqueDatasets |-> out.uniqueDatasets,
                     scoredDatasets |-> out.scoredDatasets,
                     ret |-> out.ret, threw |-> out.threw]
  /\ UNCHANGED <<papers, analysis_results, research_ideas, success_patterns>>

InitDatasets ==
  /\ createTables
  /\ \E idea \in DatasetIdeas, env \in DatasetEnvs :
       call = [op |-> "args", for |-> "findDatasetsForIdea", idea |-> idea, env |-> env]

NextDatasets == FindDatasetsForIdea

SpecDatasets == InitDatasets /\ [][NextDatasets]_vars

\* the rows the step added to the datasets table
WrittenRows == SubSeq(datasets', Len(datasets) + 1, Len(datasets'))

\* the row that persists candidate d for the idea with this id, whatever its
\* row id
PersistsCandidate(row, d, ideaId) ==
  /\ row.name = d.name
  /\ row.source = d.source
  /\ row.url = d.url
  /\ row.relevance_score = d.relevanceScore
  /\ row.matched_idea_id = ideaId

\* candidate lists a and b hold the same candidates, as often, scores aside
SameCandidates(a, b) ==
  LET bare(d) == [name |-> d.name, source |-> d.source, url |-> d.url]
      count(s, x) == Cardinality({i \in 1..Len(s) : bare(s[i]) = x})
  IN  /\ Len(a) = Len(b)
      /\ \A i \in 1..Len(a) : count(a, bare(a[i])) = count(b, bare(a[i]))

\* C9: findDatasetsForIdea writes at most 10 rows and returns at most 10
\* datasets; every row it writes references the id of the idea passed in;
\* when scoring succeeds, the scored candidates are the unique candidates,
\* each with a score, in descending order of score, the rows written are in
\* that order the first of the 10 highest-scoring ones, and when the call
\* returns (no insert failed) it returns exactly those 10 (all of them when
\* there are fewer) and has written one row for each.
C9_TopTenPersisted ==
  [][call'.op = "findDatasetsForIdea" =>
       LET scored == call'.scoredDatasets
           unique == call'.uniqueDatasets
           m == IF Len(unique) < 10 THEN Len(unique) ELSE 10
       IN  /\ Len(WrittenRows) <= 10
           /\ SubSeq(datasets', 1, Len(datasets)) = datasets
           /\ IsSome(call'.ret) => Len(Get(call'.ret)) <= 10
           /\ \A i \in 1..Len(WrittenRows) :
                WrittenRows[i].matched_idea_id = call'.idea.id
           /\ IsSome(call'.env.scoring) =>
                /\ SameCandidates(scored, unique)
                /\ \A i \in 1..Len(scored) : IsSome(scored[i].relevanceScore)
                /\ \A i, j \in 1..Len(scored) :
                     i < j => Get(scored[i].relevanceScore) >= Get(scored[j].relevanceScore)
                /\ Len(WrittenRows) <= m
                /\ \A i \in 1..Len(WrittenRows) :
                     PersistsCandidate(WrittenRows[i], scored[i], call'.idea.id)
                /\ ~call'.threw =>
                     /\ Len(WrittenRows) = m
                     /\ call'.ret = Some(SubSeq(scored, 1, m))
                /\ call'.threw =>
                     /\ Len(WrittenRows) < m
                     /\ scored[Len(WrittenRows) + 1].name = Undefined]_vars

\* Witness of C9: more than 10 unique candidates were scored, the order of
\* the scores differs from the order they were found in, and the call
\* returned 10 datasets and has written 10 rows.
C9_Witness ==
  /\ call.op = "findDatasetsForIdea"
  /\ IsSome(call.env.scoring)
  /\ Len(call.uniqueDatasets) > 10
  /\ Len(call.allDatasets) > Len(call.uniqueDatasets)
  /\ call.scoredDatasets # call.uniqueDatasets
  /\ IsSome(call.ret)
  /\ Len(Get(call.ret)) = 10
  /\ Len(datasets) = 10
  /\ datasets[1].relevance_score # datasets[10].relevance_score

\* C10: when the scoring request fails, scoreDatasets returns the unique
\* candidates as they were, in the order of their first occurrence and
\* without a score; the rows written are, in that order, the first of their
\* first 10, each with a NULL relevance score; the call fails only when an
\* insert into the Store fails, and when it returns it returns those first
\* 10 and has written one row for each.
C10_ScoringFailureDegrades ==
  [][call'.op = "findDatasetsForIdea" /\ ~IsSome(call'.env.scoring) =>
       LET unique == call'.uniqueDatasets
           m == IF Len(unique) < 10 THEN Len(unique) ELSE 10
       IN  /\ call'.scoredDatasets = unique
           /\ \A i \in 1..Len(unique) : unique[i].relevanceScore = None
           /\ Len(WrittenRows) <= m
           /\ \A i \in 1..Len(WrittenRows) :
                /\ PersistsCandidate(WrittenRows[i], unique[i], call'.idea.id)
                /\ WrittenRows[i].relevance_score = None
           /\ call'.threw <=>
                \E i \in 1..m : unique[i].name = Undefined
           /\ ~call'.threw =>
                /\ Len(WrittenRows) = m
                /\ call'.ret = Some(SubSeq(unique, 1, m))]_vars

\* Witness of C10: scoring failed with more than 10 unique candidates and
\* the call returned after writing 10 rows without a relevance score.
C10_Witness ==
  /\ call.op = "findDatasetsForIdea"
  /\ ~IsSome(call.env.scoring)
  /\ Len(call.uniqueDatasets) > 10
  /\ Len(call.allDatasets) > Len(call.uniqueDatasets)
  /\ IsSome(call.ret)
  /\ Len(datasets) = 10
  /\ \A i \in 1..10 : datasets[i].relevance_score = None

(***************************************************************************)
(* Pattern Miner: PaperAnalyzer.identifySuccessPatterns with               *)
(* KnowledgeDatabase.getTopPapers and insertSuccessPattern.                *)
(***************************************************************************)
\* papers p LEFT JOIN analysis_results a ON p.id = a.paper_id: for the paper
\* at position i, one joined row per analysis row of the paper, and one row
\* with NULL scores when it has none
JoinedRowsOf(prows, arows, i) ==
  LET matches == SelectSeq(arows, LAMBDA a : a.paper_id = prows[i].id)
  IN  IF matches = <<>>
      THEN <<[paper |-> prows[i], analysis_id |-> None, success_score |-> None,
              impact_score |-> None]>>
      ELSE [j \in 1..Len(matches) |->
              [paper |-> prows[i], analysis_id |-> Some(matches[j].id),
               success_score |-> Some(matches[j].success_score),
               impact_score |-> Some(matches[j].impact_score)]]

RECURSIVE LeftJoinFrom(_, _, _)
LeftJoinFrom(prows, arows, i) ==
  IF i > Len(prows) THEN <<>>
  ELSE JoinedRowsOf(prows, arows, i) \o LeftJoinFrom(prows, arows, i + 1)

\* the joined rows of all papers, in the order of the papers
LeftJoin(prows, arows) == LeftJoinFrom(prows, arows, 1)

\* ORDER BY a.success_score DESC, p.citations DESC: r comes before s; a NULL
\* score sorts below every score
OrderedBefore(r, s) ==
  \/ IsSome(r.success_score) /\ ~IsSome(s.success_score)
  \/ /\ IsSome(r.success_score) /\ IsSome(s.success_score)
     /\ Get(r.success_score) > Get(s.success_score)
  \/ /\ r.success_score = s.success_score
     /\ r.paper.citations > s.paper.citations

TopPapersLimit == 30

\* KnowledgeDatabase.getTopPapers(limit); rows the ORDER BY leaves tied are
\* given in the order of the join
getTopPapers(prows, arows, limit) ==
  LET joined == LeftJoin(prows, arows)
      n == Len(joined)
      pos(i) == 1 + Cardinality({j \in 1..n :
                  OrderedBefore(joined[j], joined[i])
                  \/ (~OrderedBefore(joined[i], joined[j]) /\ j < i)})
      sorted == [p \in 1..n |-> joined[CHOOSE i \in 1..n : pos(i) = p]]
  IN  SubSeq(sorted, 1, Min(limit, n))

DefaultFrequency == 1

\* the row insertSuccessPattern writes for a pattern of the response
PatternRow(id, pattern) ==
  [id |-> id, pattern_type |-> pattern.type,
   pattern_description |-> pattern.description,
   frequency |-> OrNum(pattern.frequency, DefaultFrequency)]

RECURSIVE savePatterns(_, _, _, _)
\* the loop over patterns.patterns from position i on; the insert number
\* failAt of the call fails (0: none does), which ends the loop
savePatterns(rows, patterns, i, failAt) ==
  IF i > Len(patterns) THEN [rows |-> rows, threw |-> FALSE]
  ELSE IF i = failAt THEN [rows |-> rows, threw |-> TRUE]
  ELSE savePatterns(Append(rows, PatternRow(Len(rows) + 1, patterns[i])),
                    patterns, i + 1, failAt)

\* a pattern request whose failure yields one placeholder pattern
patternsResponseOrPlaceholder(env) ==
  IF IsSome(env.response) THEN env.response
  ELSE Some([patterns |-> Some(<<[type |-> None, description |-> None,
                                  frequency |-> None]>>)])

\* the parsed response of the one inference request, None when the request
\* or JSON.parse threw
patternsResponse(env) == env.response

\* the outcome of identifySuccessPatterns() in the environment env: the
\* papers read, the number of inference requests, the value returned
\* ("undefined", "null" or "patterns"), whether the call threw, and the
\* success_patterns table after it
identifySuccessPatternsOutcome(env) ==
  LET topPapers == getTopPapers(papers, analysis_results, TopPapersLimit)
      response == patternsResponse(env)
      saved == IF IsSome(response) /\ IsSome(Get(response).patterns)
               THEN savePatterns(success_patterns, Get(Get(response).patterns), 1,
                                 env.storeFailAt)
               ELSE [rows |-> success_patterns, threw |-> FALSE]
  IN  IF env.readFails
      THEN [topPapers |-> <<>>, requests |-> 0, ret |-> "none", threw |-> TRUE,
            success_patterns |-> success_patterns]
      ELSE IF Len(topPapers) = 0
      THEN [topPapers |-> topPapers, requests |-> 0, ret |-> "undefined",
            threw |-> FALSE, success_patterns |-> success_patterns]
      ELSE IF ~IsSome(response)
      THEN [topPapers |-> topPapers, requests |-> 1, ret |-> "null",
            threw |-> FALSE, success_patterns |-> success_patterns]
      ELSE [topPapers |-> topPapers, requests |-> 1,
            ret |-> IF saved.threw THEN "null" ELSE "patterns",
            threw |-> FALSE, success_patterns |-> saved.rows]

(***************************************************************************)
(* Inputs of the pattern specification: a Store holding the first papers   *)
(* of CollectedPapers, up to MaxStoredPapers, analyses of some of them and *)
(* possibly a pattern of an earlier run; one call of                       *)
(* identifySuccessPatterns.                                                *)
(***************************************************************************)
MaxStoredPapers == 2

CollectedPapers ==
  <<[title |-> "Abstract Only", journal |-> "Journal of Marketing",
     abstract |-> Some(AbstractA), pdfPath |-> None, citations |-> Some(12)],
    [title |-> "With Document", journal |-> "Marketing Science",
     abstract |-> Some(AbstractA), pdfPath |-> Some("downloads/doc.pdf"),
     citations |-> Some(3)],
    [title |-> "No Text", journal |-> "Journal of Marketing", abstract |-> None,
     pdfPath |-> None, citations |-> None],
    [title |-> "Abstract Only", journal |-> "Marketing Science",
     abstract |-> Some(AbstractA), pdfPath |-> None, citations |-> Some(3)]>>

RECURSIVE PapersStored(_)
\* the papers table after the first k collected papers were inserted
PapersStored(k) ==
  IF k = 0 THEN <<>> ELSE insertPaperRows(PapersStored(k - 1), CollectedPapers[k])

\* the assessment stored for the paper with this id
StoredAssessment(id) ==
  IF id % 2 = 1 THEN Assessment(Some(80), Some(70), Some(90), Some(60), Some(50))
  ELSE Assessment(Some(80), Some(70), None, Some(60), Some(50))

RECURSIVE AnalysesStored(_, _, _)
\* the analysis_results table after the papers of prows whose id is in ids
\* were analysed, in the order of the papers, from position i on
AnalysesStored(prows, ids, i) ==
  IF i = 0 THEN <<>>
  ELSE IF prows[i].id \in ids
  THEN insertAnalysisRows(AnalysesStored(prows, ids, i - 1),
                          AnalysisResult(prows[i], StoredAssessment(prows[i].id), None))
  ELSE AnalysesStored(prows, ids, i - 1)

PatternA == [type |-> Some("data"), description |-> Some("panel data"), frequency |-> Some(3)]

PatternB == [type |-> Some("method"), description |-> None, frequency |-> None]

PatternC == [type |-> None, description |-> Some("field experiment"), frequency |-> Some(0)]

\* parsed responses of the pattern request; None: the request or JSON.parse
\* threw
PatternResponses ==
  {None, Some([patterns |-> None]), Some([patterns |-> Some(<<>>)]),
   Some([patterns |-> Some(<<PatternA>>)]),
   Some([patterns |-> Some(<<PatternB, PatternC>>)])}

PatternEnvs ==
  [readFails : BOOLEAN, response : PatternResponses, storeFailAt : 0..2]

\* PaperAnalyzer.identifySuccessPatterns()
IdentifySuccessPatterns ==
  /\ call.op = "args"
  /\ call.for = "identifySuccessPatterns"
  /\ LET out == identifySuccessPatternsOutcome(call.env)
     IN  /\ success_patterns' = out.success_patterns
         /\ call' = [op |-> "identifySuccessPatterns", env |-> call.env,
                     topPapers |-> out.topPapers, requests |-> out.requests,
                     ret |-> out.ret, threw |-> out.threw]
  /\ UNCHANGED <<papers, analysis_results, research_ideas, datasets>>

InitPatterns ==
  /\ \E k \in 0..MaxStoredPapers : \E ids \in SUBSET (1..k) :
       /\ papers = PapersStored(k)
       /\ analysis_results = AnalysesStored(PapersStored(k), ids, k)
  /\ success_patterns \in {<<>>, <<PatternRow(1, PatternA)>>}
  /\ research_ideas = <<>>
  /\ datasets = <<>>
  /\ \E env \in PatternEnvs :
       call = [op |-> "args", for |-> "identifySuccessPatterns", env |-> env]

NextPatterns == IdentifySuccessPatterns

SpecPatterns == InitPatterns /\ [][NextPatterns]_vars

\* C11: identifySuccessPatterns submits exactly one inference request when
\* it has papers, and never more than one; when that request fails or its
\* response cannot be parsed, the call returns null without throwing and
\* the success_patterns table, like every other table, is as it was.
C11_PatternFailureWritesNothing ==
  [][call'.op = "identifySuccessPatterns" =>
       /\ call'.requests <= 1
       /\ call'.topPapers # <<>> => call'.requests = 1
       /\ call'.requests = 1 /\ ~IsSome(call'.env.response) =>
            /\ call'.ret = "null"
            /\ ~call'.threw
            /\ tables' = tables]_vars

\* Witness of C11: with papers and an earlier pattern in the Store, the one
\* request failed, null was returned and the earlier pattern is all the
\* table holds.
C11_Witness ==
  /\ call.op = "identifySuccessPatterns"
  /\ Len(call.topPapers) = 2
  /\ call.requests = 1
  /\ ~IsSome(call.env.response)
  /\ call.ret = "null"
  /\ success_patterns = <<PatternRow(1, PatternA)>>

\* C20 as stated, for identifySuccessPatterns: when no paper of the Store
\* has an analysis row the call issues no inference request and writes
\* nothing, and every paper it submits has an analysis row.
C20_OnlyAnalyzedPapers ==
  [][call'.op = "identifySuccessPatterns" =>
       /\ analysis_results = <<>> => call'.requests = 0 /\ tables' = tables
       /\ call'.requests > 0 =>
            \A i \in 1..Len(call'.topPapers) :
              \E j \in 1..Len(analysis_results) :
                analysis_results[j].paper_id = call'.topPapers[i].paper.id]_vars

(***************************************************************************)
(* Dataset Matcher, step by step: the loop of findDatasetsForIdea over the *)
(* search queries.  For each query the four searches are started in one    *)
(* step (each async function runs up to its request before the next is     *)
(* called), each completes in a step of its own or never, and the await of *)
(* Promise.all resumes the loop.                                           *)
(***************************************************************************)
Searches == {"dataGov", "kaggle", "huggingFace", "generic"}

\* Promise.race in place of Promise.all: one completed search resumes the loop
AnySettled(search) == \E s \in Searches : search[s] = "done"

\* await Promise.all([...]): resumes when the four searches have completed
AllSettled(search) == \A s \in Searches : search[s] = "done"

\* what a search that has not completed contributes
NothingFound == [s \in Searches |-> <<>>]

MaxQueries == 2

\* what a completed search may have found for a query
SearchResults(s) ==
  IF s = "dataGov" THEN {<<>>, <<[title |-> FoundName(1), name |-> "catalog"]>>}
  ELSE IF s = "huggingFace" THEN {<<>>, <<[id |-> FoundName(2)]>>}
  ELSE IF s = "generic"
  THEN {<<>>, <<[name |-> FoundName(3), source |-> None, url |-> Some("suggested")]>>}
  ELSE {<<>>}

\* the loop head: the next query is taken and its four searches are started
IssueQuery ==
  /\ call.pc = "loop"
  /\ call.q < call.queries
  /\ call' = [call EXCEPT !.q = call.q + 1, !.pc = "await",
                          !.search = [s \in Searches |-> "pending"],
                          !.results = NothingFound]
  /\ UNCHANGED tables

\* a pending search completes, with what it found or with [] after an error
CompleteSearch(s, found) ==
  /\ call.pc = "await"
  /\ call.search[s] = "pending"
  /\ call' = [call EXCEPT !.search[s] = "done", !.results[s] = found]
  /\ UNCHANGED tables

\* a pending search is one that will never complete
HangSearch(s) ==
  /\ call.pc = "await"
  /\ call.search[s] = "pending"
  /\ call' = [call EXCEPT !.search[s] = "hung"]
  /\ UNCHANGED tables

\* Promise.all resolves: allDatasets.push(...datasets.flat()), then the delay
ResumeLoop ==
  /\ call.pc = "await"
  /\ AllSettled(call.search)
  /\ call' = [call EXCEPT !.pc = "loop", !.found = Append(call.found, call.results)]
  /\ UNCHANGED tables

\* after the last query: deduplication, scoring and persistence
FinishSearch(scoring) ==
  /\ call.pc = "loop"
  /\ call.q = call.queries
  /\ LET out == findDatasetsForIdeaOutcome(call.idea, [found |-> call.found,
                                                       scoring |-> scoring])
     IN  /\ datasets' = out.datasets
         /\ call' = [call EXCEPT !.pc = "done", !.ret = out.ret, !.threw = out.threw]
  /\ UNCHANGED <<papers, analysis_results, research_ideas, success_patterns>>

InitSearch ==
  /\ createTables
  /\ \E idea \in DatasetIdeas, n \in 0..MaxQueries :
       call = [op |-> "findDatasetsForIdea", pc |-> "loop", idea |-> idea,
               queries |-> n, q |-> 0, search |-> [s \in Searches |-> "idle"],
               results |-> NothingFound, found |-> <<>>, ret |-> None,
               threw |-> FALSE]

NextSearch ==
  \/ IssueQuery
  \/ \E s \in Searches : \E found \in SearchResults(s) : CompleteSearch(s, found)
  \/ \E s \in Searches : HangSearch(s)
  \/ ResumeLoop
  \/ \E scoring \in {None, Some([own |-> <<>>, scores |-> None])} : FinishSearch(scoring)

SpecSearch == InitSearch /\ [][NextSearch]_vars

\* C15: the four searches of a query are started together, and only when
\* the four of the query before have completed; deduplication, scoring and
\* persistence happen only after the four searches of the last query have
\* completed; from the moment a search will never complete no further
\* query is issued, the call does not finish and no dataset row is written.
C15_AwaitAllFour ==
  [][/\ call'.q # call.q =>
          /\ call'.q = call.q + 1
          /\ \A s \in Searches : call.search[s] \in {"idle", "done"}
          /\ \A s \in Searches : call'.search[s] = "pending"
     /\ (datasets' # datasets \/ call'.pc = "done") =>
          /\ call.q = call.queries
          /\ \A s \in Searches : call.search[s] \in {"idle", "done"}
          /\ Len(call.found) = call.queries
     /\ (\E s \in Searches : call.search[s] = "hung") =>
          /\ call'.q = call.q
          /\ call'.pc = "await"
          /\ datasets' = datasets
          /\ datasets = <<>>]_vars

\* Witness of C15: the searches of the first query found datasets, a search
\* of the second query never completes while the three others have
\* completed, and nothing is persisted.
C15_Witness ==
  /\ call.q = 2
  /\ call.search["dataGov"] = "hung"
  /\ \A s \in Searches \ {"dataGov"} : call.search[s] = "done"
  /\ Len(call.found) = 1
  /\ call.found[1]["generic"] # <<>>
  /\ call.pc = "await"
  /\ datasets = <<>>

(***************************************************************************)
(* The stages, step by step: analyzeAllPapers, identifySuccessPatterns,    *)
(* generateResearchIdeas and findDatasetsForAllIdeas run one at a time     *)
(* against the Store.  While a stage runs, call holds its position: the    *)
(* items its initial query returned, the index of the next item, the ids   *)
(* of the items attempted and their outcomes, the Store reads and writes   *)
(* it made so far (log), whether a Store operation failed during it and    *)
(* whether it threw to its caller.                                         *)
(***************************************************************************)
StageOps ==
  {"analyzeAllPapers", "identifySuccessPatterns", "generateResearchIdeas",
   "findDatasetsForAllIdeas"}

\* no stage is running
Idle == call.op \notin StageOps

\* a stage after its initial Store reads, n of them, which gave `items`
StageStarted(op, items, n) ==
  [op |-> op, pc |-> "loop", items |-> items, i |-> 1, attempted |-> <<>>,
   outcomes |-> <<>>, log |-> [k \in 1..n |-> "read"],
   storeFailed |-> FALSE, threw |-> FALSE]

\* a stage whose initial Store read, its n-th, failed: the error leaves the
\* stage
StageReadFailed(op, n) ==
  [op |-> op, pc |-> "done", items |-> <<>>, i |-> 1, attempted |-> <<>>,
   outcomes |-> <<>>, log |-> [k \in 1..n |-> "read"],
   storeFailed |-> TRUE, threw |-> TRUE]

\* the query without its WHERE a.id IS NULL: every paper
getPapersAnalysedOrNot(prows, arows) == prows

\* getPapersWithoutAnalysis: papers LEFT JOIN analysis_results WHERE a.id IS NULL
getPapersWithoutAnalysis(prows, arows) ==
  LET kept == SelectSeq(LeftJoin(prows, arows), LAMBDA r : ~IsSome(r.analysis_id))
  IN  [k \in 1..Len(kept) |-> kept[k].paper]

\* whether analyzePaper(paper) reaches updatePaperMetadata in env
UpdatesPaper(paper, env) ==
  /\ FullTextOf(paper, env) # <<>>
  /\ IsSome(assessSuccessFactors(env))
  /\ HasMethodologySection(SectionsOf(paper, env))
  /\ IsSome(analyzeMethodology(env))

\* analyzePaper(paper) with a Store whose insertAnalysis or
\* updatePaperMetadata may fail (env.storeFails): the failure rejects the
\* call, what was written before it stays; writes counts the Store writes
\* attempted
analyzePaperInStore(paper, env) ==
  LET out == analyzePaperOutcome(paper, env)
  IN  IF ~IsSome(out.ret)
      THEN [ret |-> None, threw |-> FALSE, writes |-> 0, requests |-> Len(out.requests),
            analysis_results |-> analysis_results, papers |-> papers]
      ELSE IF env.storeFails = "insertAnalysis"
      THEN [ret |-> None, threw |-> TRUE, writes |-> 1, requests |-> Len(out.requests),
            analysis_results |-> analysis_results, papers |-> papers]
      ELSE IF env.storeFails = "updatePaperMetadata" /\ UpdatesPaper(paper, env)
      THEN [ret |-> None, threw |-> TRUE, writes |-> 2, requests |-> Len(out.requests),
            analysis_results |-> out.analysis_results, papers |-> papers]
      ELSE [ret |-> out.ret, threw |-> FALSE,
            writes |-> IF UpdatesPaper(paper, env) THEN 2 ELSE 1,
            requests |-> Len(out.requests),
            analysis_results |-> out.analysis_results, papers |-> out.papers]

\* how the loop of a stage sees the outcome of an item
OutcomeKind(out) ==
  IF out.threw THEN "threw" ELSE IF IsSome(out.ret) THEN "result" ELSE "null"

\* a loop that reads its query again before every item and takes the first
\* paper it returns
PaperAtIndexRequeried(c) ==
  LET again == getPapersWithoutAnalysis(papers, analysis_results)
  IN  IF again # <<>> THEN again[1] ELSE c.items[c.i]

\* the item of the for loop: the next paper of the list read at the start
PaperAtIndex(c) == c.items[c.i]

\* a loop whose catch ends it: nothing is left after an item that threw
LoopEndedByThrow(c) ==
  c.i > Len(c.items) \/ (c.outcomes # <<>> /\ c.outcomes[Len(c.outcomes)] = "threw")

\* the for loop is over: every item was taken
LoopOver(c) == c.i > Len(c.items)

\* a finished stage has returned or thrown to its caller: its call is over
StageReturns ==
  /\ call.op \in StageOps
  /\ call.pc = "done"
  /\ call' = NoCall
  /\ UNCHANGED tables

\* analyzeAllPapers, its first line: the papers without analysis are read
StartAnalyzeAll(readFails) ==
  /\ Idle
  /\ call' = IF readFails THEN StageReadFailed("analyzeAllPapers", 1)
             ELSE StageStarted("analyzeAllPapers",
                               getPapersWithoutAnalysis(papers, analysis_results), 1)
  /\ UNCHANGED tables

\* one turn of the loop of analyzeAllPapers: analyzePaper on the next paper,
\* inside try/catch
AnalyzeNext(env) ==
  /\ call.op = "analyzeAllPapers"
  /\ call.pc = "loop"
  /\ ~LoopOver(call)
  /\ LET paper == PaperAtIndex(call)
         out == analyzePaperInStore(paper, env)
     IN  /\ analysis_results' = out.analysis_results
         /\ papers' = out.papers
         /\ call' = [call EXCEPT !.i = call.i + 1,
                       !.attempted = Append(call.attempted, paper.id),
                       !.outcomes = Append(call.outcomes, OutcomeKind(out)),
                       !.log = call.log \o [k \in 1..out.writes |-> "write"],
                       !.storeFailed = call.storeFailed \/ out.threw]
  /\ UNCHANGED <<research_ideas, datasets, success_patterns>>

\* the loop is over: the stage returns
FinishStage(op) ==
  /\ call.op = op
  /\ call.pc = "loop"
  /\ LoopOver(call)
  /\ call' = [call EXCEPT !.pc = "done"]
  /\ UNCHANGED tables

\* getResearchIdeas(status): the ideas of that status (all when status is
\* null) ORDER BY novelty_score DESC; ideas of equal score are given in the
\* order of their insertion
getResearchIdeas(rows, status) ==
  LET kept == SelectSeq(rows, LAMBDA r : ~IsSome(status) \/ r.status = Get(status))
      n == Len(kept)
      pos(i) == 1 + Cardinality({j \in 1..n :
                  \/ kept[j].novelty_score > kept[i].novelty_score
                  \/ kept[j].novelty_score = kept[i].novelty_score /\ j < i})
  IN  [p \in 1..n |-> kept[CHOOSE i \in 1..n : pos(i) = p]]

\* getSuccessPatterns: ORDER BY frequency DESC, equal frequencies in the
\* order of their insertion
getSuccessPatterns(rows) ==
  LET n == Len(rows)
      pos(i) == 1 + Cardinality({j \in 1..n :
                  \/ rows[j].frequency > rows[i].frequency
                  \/ rows[j].frequency = rows[i].frequency /\ j < i})
  IN  [p \in 1..n |-> rows[CHOOSE i \in 1..n : pos(i) = p]]

\* findDatasetsForAllIdeas, its first line: the generated ideas are read
StartFindAll(readFails) ==
  /\ Idle
  /\ call' = IF readFails THEN StageReadFailed("findDatasetsForAllIdeas", 1)
             ELSE StageStarted("findDatasetsForAllIdeas",
                               getResearchIdeas(research_ideas, Some("generated")), 1)
  /\ UNCHANGED tables

\* one turn of the loop of findDatasetsForAllIdeas: findDatasetsForIdea on
\* the next idea, inside try/catch
FindNext(env) ==
  /\ call.op = "findDatasetsForAllIdeas"
  /\ call.pc = "loop"
  /\ ~LoopOver(call)
  /\ LET idea == call.items[call.i]
         out == findDatasetsForIdeaOutcome(idea, env)
         written == Len(out.datasets) - Len(datasets)
     IN  /\ datasets' = out.datasets
         /\ call' = [call EXCEPT !.i = call.i + 1,
                       !.attempted = Append(call.attempted, idea.id),
                       !.outcomes = Append(call.outcomes, OutcomeKind(out)),
                       !.log = call.log \o
                               [k \in 1..(written + IF out.threw THEN 1 ELSE 0) |-> "write"],
                       !.storeFailed = call.storeFailed \/ out.threw]
  /\ UNCHANGED <<papers, analysis_results, research_ideas, success_patterns>>

GeneratorTopLimit == 50

\* generateResearchIdeas up to its loop: the top papers and the patterns are
\* read (readFails: 0 none, 1 the first read, 2 the second); without top
\* papers it returns []
StartGenerate(readFails) ==
  /\ Idle
  /\ call' = IF readFails # 0 THEN StageReadFailed("generateResearchIdeas", readFails)
             ELSE IF getTopPapers(papers, analysis_results, GeneratorTopLimit) = <<>>
             THEN [StageStarted("generateResearchIdeas", <<>>, 2) EXCEPT !.pc = "done"]
             ELSE StageStarted("generateResearchIdeas", Strategies, 2)
  /\ UNCHANGED tables

\* one turn of the loop of generateResearchIdeas: generateIdeasByStrategy
\* with the next strategy; response is the parsed response of its request,
\* None when the request or JSON.parse threw
GenerateNext(response) ==
  /\ call.op = "generateResearchIdeas"
  /\ call.pc = "loop"
  /\ ~LoopOver(call)
  /\ LET ideas == IF IsSome(response) THEN ResponseIdeas(Get(response)) ELSE <<>>
         failed == SavedCount(ideas) < Len(ideas)
     IN  /\ research_ideas' = SaveIdeas(research_ideas, ideas)
         /\ call' = [call EXCEPT !.i = call.i + 1,
                       !.attempted = Append(call.attempted, call.items[call.i]),
                       !.log = call.log \o
                               [k \in 1..(SavedCount(ideas) + IF failed THEN 1 ELSE 0) |->
                                  "write"],
                       !.storeFailed = call.storeFailed \/ failed]
  /\ UNCHANGED <<papers, analysis_results, datasets, success_patterns>>

\* identifySuccessPatterns as a stage
IdentifyPatternsStage(env) ==
  /\ Idle
  /\ LET out == identifySuccessPatternsOutcome(env)
         written == Len(out.success_patterns) - Len(success_patterns)
         failed == IsSome(env.response) /\ out.ret = "null"
     IN  /\ success_patterns' = out.success_patterns
         /\ call' = [op |-> "identifySuccessPatterns", pc |-> "done",
                     items |-> out.topPapers, i |-> 1, attempted |-> <<>>,
                     outcomes |-> <<>>,
                     log |-> <<"read">> \o
                             [k \in 1..(written + IF failed THEN 1 ELSE 0) |-> "write"],
                     storeFailed |-> env.readFails \/ failed, threw |-> out.threw]
  /\ UNCHANGED <<papers, analysis_results, research_ideas, datasets>>

\* the collector hands the next collected paper to insertPaper
CollectPaper ==
  /\ Idle
  /\ Len(papers) < Len(CollectedPapers)
  /\ InsertPaper(CollectedPapers[Len(papers) + 1])

\* a refinement that marks the refined idea in the table
refineIdeaRowsMarked(rows, ideaId, response) ==
  [i \in 1..Len(rows) |->
     IF rows[i].id = ideaId /\ IsSome(response)
     THEN [rows[i] EXCEPT !.status = "refined"] ELSE rows[i]]

\* refineIdea leaves the research_ideas table as it is
refineIdeaRows(rows, ideaId, response) == rows

\* IdeaGenerator.refineIdea(ideaId): the ideas are read, the idea is looked
\* up, and the parsed response of one request is returned, null when the
\* idea is not stored or the request failed
RefineIdea(ideaId, response) ==
  /\ Idle
  /\ LET ideas == getResearchIdeas(research_ideas, None)
         found == \E i \in 1..Len(ideas) : ideas[i].id = ideaId
     IN  /\ research_ideas' = IF found THEN refineIdeaRows(research_ideas, ideaId, response)
                              ELSE research_ideas
         /\ call' = [op |-> "refineIdea", ideaId |-> ideaId, found |-> found,
                     requests |-> IF found THEN 1 ELSE 0,
                     ret |-> IF found THEN response ELSE None, threw |-> FALSE]
  /\ UNCHANGED <<papers, analysis_results, datasets, success_patterns>>

\* IdeaGenerator.evaluateIdea(idea): the parsed response of one request, or
\* null
EvaluateIdea(idea, response) ==
  /\ Idle
  /\ call' = [op |-> "evaluateIdea", idea |-> idea, requests |-> 1,
              ret |-> response, threw |-> FALSE]
  /\ UNCHANGED tables

\* IdeaGenerator.evaluateIdeas(): evaluateIdea on every generated idea; the
\* evaluations are printed, nothing is stored or returned
EvaluateIdeas(responses) ==
  /\ Idle
  /\ LET ideas == getResearchIdeas(research_ideas, Some("generated"))
     IN  /\ Len(responses) = Len(ideas)
         /\ call' = [op |-> "evaluateIdeas", ideas |-> ideas, requests |-> Len(ideas),
                     responses |-> responses, ret |-> None, threw |-> FALSE]
  /\ UNCHANGED tables

(***************************************************************************)
(* Inputs of the pipeline specification: the Store starts empty; up to     *)
(* MaxStoredPapers papers are collected; the stages run in any order, one  *)
(* at a time, with a few outcomes of every request and Store operation,    *)
(* and write up to MaxStoredIdeas ideas, MaxStoredDatasets datasets and    *)
(* MaxStoredPatterns patterns.                                             *)
(***************************************************************************)
MaxStoredIdeas == 1

MaxStoredDatasets == 1

MaxStoredPatterns == 1

\* the environments of analyzePaper(paper) inside the stage: a document with
\* sections when the paper has a pdf_path
StageAnalysisEnvs(paper) ==
  {[fileExists |-> IsSome(paper.pdf_path),
    pdfText |-> IF IsSome(paper.pdf_path) THEN Some(PdfWithSections) ELSE None,
    methodology |-> m, assessment |-> a, storeFails |-> f] :
     m \in IF IsSome(paper.pdf_path)
           THEN {None, Some([research_design |-> Some("survey"),
                             data_sources |-> "[\"panel\"]",
                             analytical_methods |-> "[\"SEM\"]"])}
           ELSE {None},
     a \in {None, Some(StoredAssessment(paper.id))},
     f \in {"none", "insertAnalysis", "updatePaperMetadata"}}

\* the environments of findDatasetsForIdea inside the stage: nothing found;
\* one dataset found and scored; one dataset and a suggestion without a
\* name found, and the scoring failed
StageDatasetEnvs ==
  {[found |-> Found(0, 1, FALSE, FALSE), scoring |-> None],
   [found |-> Found(1, 1, FALSE, FALSE), scoring |-> Some([own |-> <<>>, scores |-> None])],
   [found |-> Found(1, 1, FALSE, TRUE), scoring |-> None]}

IdeaA ==
  [title |-> Some("Idea A"), feasibility_score |-> Some(85), feasibility |-> None,
   novelty_score |-> Some(90), novelty |-> None]

IdeaWithoutTitle ==
  [title |-> None, feasibility_score |-> Some(50), feasibility |-> None,
   novelty_score |-> Some(50), novelty |-> None]

\* the responses of generateIdeasByStrategy inside the stage: a failed
\* request, no idea, one idea, an idea followed by one without a title
StageIdeaResponses ==
  {None,
   Some([ideas |-> Some(<<>>), research_ideas |-> None]),
   Some([ideas |-> Some(<<IdeaA>>), research_ideas |-> None]),
   Some([ideas |-> Some(<<IdeaA, IdeaWithoutTitle>>), research_ideas |-> None])}

StagePatternEnvs ==
  [readFails : BOOLEAN, response : {None, Some([patterns |-> Some(<<PatternA>>)])},
   storeFailAt : 0..1]

\* the responses of a refinement or evaluation request
ReviewResponses == {None, Some("plan")}

InitPipeline == createTables /\ call = NoCall

\* a turn of the loop of analyzeAllPapers, whatever the environment gives
AnalyzeTurn ==
  /\ call.op = "analyzeAllPapers" /\ call.pc = "loop" /\ ~LoopOver(call)
  /\ \E env \in StageAnalysisEnvs(PaperAtIndex(call)) : AnalyzeNext(env)

\* a turn of the loop of generateResearchIdeas
GenerateTurn ==
  \E response \in StageIdeaResponses :
    /\ IsSome(response) =>
         Len(SaveIdeas(research_ideas, ResponseIdeas(Get(response)))) <= MaxStoredIdeas
    /\ GenerateNext(response)

\* a turn of the loop of findDatasetsForAllIdeas
FindTurn ==
  \E env \in StageDatasetEnvs :
    /\ Len(env.found[1].dataGov) + Len(datasets) <= MaxStoredDatasets
    /\ FindNext(env)

\* a run of identifySuccessPatterns
IdentifyTurn ==
  \E env \in StagePatternEnvs :
    /\ Len(identifySuccessPatternsOutcome(env).success_patterns) <= MaxStoredPatterns
    /\ IdentifyPatternsStage(env)

NextPipeline ==
  \/ Len(papers) < MaxStoredPapers /\ CollectPaper
  \/ \E readFails \in BOOLEAN : StartAnalyzeAll(readFails)
  \/ AnalyzeTurn
  \/ FinishStage("analyzeAllPapers")
  \/ IdentifyTurn
  \/ \E readFails \in 0..2 : StartGenerate(readFails)
  \/ GenerateTurn
  \/ FinishStage("generateResearchIdeas")
  \/ \E readFails \in BOOLEAN : StartFindAll(readFails)
  \/ FindTurn
  \/ FinishStage("findDatasetsForAllIdeas")
  \/ StageReturns

SpecPipeline == InitPipeline /\ [][NextPipeline]_vars

\* the pipeline with every running loop taking its next turn: a call of
\* analyzePaper or findDatasetsForIdea comes back, with a result, with null
\* or with an error
FairSpecPipeline ==
  /\ SpecPipeline
  /\ WF_vars(AnalyzeTurn)
  /\ WF_vars(FindTurn)
  /\ WF_vars(FinishStage("analyzeAllPapers"))
  /\ WF_vars(FinishStage("findDatasetsForAllIdeas"))

\* C12 as stated: once a Store operation has failed during a stage, the
\* stage is over and has thrown to its caller.
C12_StoreFailureFatal ==
  call.op \in StageOps /\ call.storeFailed => call.pc = "done" /\ call.threw

ItemLoops == {"analyzeAllPapers", "findDatasetsForAllIdeas"}

\* the items of the initial query that the loop has taken: the first i - 1,
\* each once, in order
C13_AttemptedInOrder ==
  call.op \in ItemLoops =>
    /\ call.attempted = [k \in 1..(call.i - 1) |-> call.items[k].id]
    /\ Len(call.outcomes) = call.i - 1
    /\ call.i <= Len(call.items) + 1
    /\ call.pc = "done" => call.i = Len(call.items) + 1

AppendedTo(old, new) ==
  Len(new) >= Len(old) /\ SubSeq(new, 1, Len(old)) = old

\* the paper row with its five analysis columns blanked
WithoutEnrichment(row) ==
  [row EXCEPT !.methodology = None, !.data_sources = None, !.analysis_methods = None,
              !.key_findings = None, !.theoretical_framework = None]

HasAnalysis(arows, paperId) == \E j \in 1..Len(arows) : arows[j].paper_id = paperId

\* C17: no step of a stage deletes a row of any table or modifies a row of
\* analysis_results, research_ideas, datasets or success_patterns; a paper
\* row changes only in its five analysis columns, only while they are still
\* NULL, and only in the step that gives the paper its analysis row, so at
\* most once.
C17_AppendOnly ==
  [][/\ AppendedTo(analysis_results, analysis_results')
     /\ AppendedTo(research_ideas, research_ideas')
     /\ AppendedTo(datasets, datasets')
     /\ AppendedTo(success_patterns, success_patterns')
     /\ Len(papers') >= Len(papers)
     /\ \A i \in 1..Len(papers) :
          /\ WithoutEnrichment(papers'[i]) = WithoutEnrichment(papers[i])
          /\ papers'[i] # papers[i] =>
               /\ papers[i] = WithoutEnrichment(papers[i])
               /\ ~HasAnalysis(analysis_results, papers[i].id)
               /\ HasAnalysis(analysis_results', papers[i].id)]_vars

\* Witness of C17: the paper with a document was enriched, the paper before
\* it was analysed without enrichment, and ideas, datasets and patterns are
\* stored.
C17_Witness ==
  /\ Len(papers) = 2
  /\ papers[2].methodology = Some("survey")
  /\ papers[1] = WithoutEnrichment(papers[1])
  /\ Len(analysis_results) = 2
  /\ research_ideas # <<>>
  /\ datasets # <<>>
  /\ success_patterns # <<>>

\* C18: every paper has at most one analysis row, and a turn of
\* analyzeAllPapers takes only a paper that has no analysis row, whatever
\* runs came before.
C18_OneAnalysisPerPaper ==
  [][/\ \A i \in 1..Len(papers') :
          Cardinality({j \in 1..Len(analysis_results') :
                         analysis_results'[j].paper_id = papers'[i].id}) <= 1
     /\ (call'.op = "analyzeAllPapers" /\ call.op = "analyzeAllPapers"
         /\ call'.attempted # call.attempted) =>
          ~HasAnalysis(analysis_results, call'.attempted[Len(call'.attempted)])]_vars

\* Witness of C18: a run taken after the first paper was analysed found
\* only the second paper to analyse, and analysed it.
C18_Witness ==
  /\ call.op = "analyzeAllPapers"
  /\ Len(papers) = 2
  /\ Len(call.items) = 1
  /\ call.attempted = <<2>>
  /\ call.outcomes = <<"result">>
  /\ analysis_results[1].paper_id = 1
  /\ analysis_results[2].paper_id = 2

\* the item as the stage records it: a strategy, or the id of a row
ItemKey(item, op) == IF op = "generateResearchIdeas" THEN item ELSE item.id

\* no Store read follows a Store write
ReadsBeforeWrites(log) ==
  \A k, l \in 1..Len(log) : log[k] = "write" /\ log[l] = "read" => l < k

\* C19: within an invocation of a stage every Store read comes before the
\* first Store write; the items read at the start stay the items of the
\* invocation whatever it writes, and every item attempted is the next
\* item of that list.
C19_ReadsBeforeWrites ==
  [][call'.op \in StageOps =>
       /\ ReadsBeforeWrites(call'.log)
       /\ call.op = call'.op =>
            /\ call'.items = call.items
            /\ Cardinality({k \in 1..Len(call'.log) : call'.log[k] = "read"})
                 = Cardinality({k \in 1..Len(call.log) : call.log[k] = "read"})
            /\ call'.attempted # call.attempted =>
                 call'.attempted =
                   Append(call.attempted, ItemKey(call.items[call.i], call.op))]_vars

\* Witness of C19: analyzeAllPapers has written the analysis of its first
\* paper, so the query it started from would now return another list, and
\* it went on to the second paper of the list it read.
C19_Witness ==
  /\ call.op = "analyzeAllPapers"
  /\ call.log = <<"read", "write">>
  /\ call.outcomes = <<"result", "null">>
  /\ Len(call.items) = 2
  /\ getPapersWithoutAnalysis(papers, analysis_results) # call.items
  /\ call.attempted = <<1, 2>>

(***************************************************************************)
(* The review operations of the idea generator: ideas are stored by        *)
(* generateIdeasByStrategy, up to MaxReviewIdeas of them, and refineIdea,  *)
(* evaluateIdea and evaluateIdeas are called on the Store in any order.    *)
(***************************************************************************)
MaxReviewIdeas == 3

\* the parsed responses that store ideas
StoredIdeaResponses ==
  {[ideas |-> Some(<<idea>>), research_ideas |-> None] :
     idea \in {i \in IdeaPool : i.title \in {Some("Idea A"), Some("Idea B"), None}}}

\* generateIdeasByStrategy with a parsed response, on the Store as it is
StoreIdeas(response) ==
  /\ Idle
  /\ LET ideas == ResponseIdeas(response) IN
     /\ Len(research_ideas) + SavedCount(ideas) <= MaxReviewIdeas
     /\ research_ideas' = SaveIdeas(research_ideas, ideas)
     /\ call' = [op |-> "generateIdeasByStrategy", requests |-> 1,
                 ret |-> IF SavedCount(ideas) = Len(ideas) THEN ideas ELSE <<>>]
  /\ UNCHANGED <<papers, analysis_results, datasets, success_patterns>>

ReviewOps == {"refineIdea", "evaluateIdea", "evaluateIdeas"}

InitReview == createTables /\ call = NoCall

NextReview ==
  \/ \E response \in StoredIdeaResponses : StoreIdeas(response)
  \/ \E ideaId \in 1..(MaxReviewIdeas + 1), response \in ReviewResponses :
       RefineIdea(ideaId, response)
  \/ \E i \in 1..Len(research_ideas), response \in ReviewResponses :
       EvaluateIdea(research_ideas[i], response)
  \/ \E responses \in [1..Len(research_ideas) -> ReviewResponses] :
       EvaluateIdeas(responses)

SpecReview == InitReview /\ [][NextReview]_vars

\* C16: a call of refineIdea, evaluateIdea or evaluateIdeas leaves every
\* table of the Store as it was, and every stored idea has the status
\* `generated`, before and after.
C16_ReviewReadOnly ==
  [][/\ call'.op \in ReviewOps => tables' = tables
     /\ \A i \in 1..Len(research_ideas') : research_ideas'[i].status = "generated"]_vars

\* Witness of C16: refineIdea found the second of two stored ideas and
\* returned the plan of its response.
C16_Witness ==
  /\ call.op = "refineIdea"
  /\ call.found
  /\ call.ideaId = 2
  /\ IsSome(call.ret)
  /\ Len(research_ideas) >= 2

(***************************************************************************)
(* The command-line runs of the analyzer, the idea generator, the dataset  *)
(* finder and the downloader: an async function awaits the steps of the    *)
(* program inside try, logs what they throw in catch, and closes the       *)
(* Store connection or the browser in finally. Every step is taken by its  *)
(* outcome: it returns or it throws.                                       *)
(***************************************************************************)
Programs == {"analyzer", "generator", "finder", "downloader"}

\* the statements of the try block
CliSteps(program) ==
  CASE program = "analyzer" ->
         <<"initialize", "analyzeAllPapers", "identifySuccessPatterns">>
    [] program = "generator" ->
         <<"initialize", "generateResearchIdeas", "generateIdeaSummaryReport">>
    [] program = "finder" -> <<"initialize", "findDatasetsForAllIdeas">>
    [] program = "downloader" ->
         <<"initialize", "authenticateLibrary", "downloadAllJournals", "writeFileSync">>

\* authenticateLibrary catches whatever its page operations throw
CanThrow(step) == step # "authenticateLibrary"

\* what the run holds after initialize: the Store programs assign this.db
\* before the connection is opened; the downloader assigns this.browser when
\* the launch has succeeded (launched), also when a later line of initialize
\* throws
HeldAfterInitialize(program, launched) ==
  IF program = "downloader" THEN (IF launched THEN "held" ELSE "none") ELSE "held"

\* the exit codes of a run whose async function rejects, which no handler
\* observes: 1 where the runtime ends the process on an unhandled
\* rejection, 0 where it only warns
ExitCodesUnhandled == {0, 1}

\* the exit codes the run can end with: process.exit and process.exitCode
\* are used nowhere, so a run whose async function settles ends with code 0
ExitCodesOf(c) ==
  IF c.closeFailed THEN ExitCodesUnhandled ELSE {0}

\* the next statement of the try block returns or throws; what it throws
\* is caught by the catch of the run
CliStep(throws, launched) ==
  /\ call.op = "cli"
  /\ call.pc = "try"
  /\ call.step <= Len(CliSteps(call.program))
  /\ LET step == CliSteps(call.program)[call.step]
         held == IF step = "initialize"
                 THEN HeldAfterInitialize(call.program, launched \/ ~throws)
                 ELSE call.resource
     IN  call' = IF throws /\ CanThrow(step)
                 THEN [call EXCEPT !.pc = "catch", !.error = Some(step),
                                   !.resource = held]
                 ELSE [call EXCEPT !.step = call.step + 1, !.resource = held]
  /\ UNCHANGED tables

\* the try block is over
CliTryDone ==
  /\ call.op = "cli"
  /\ call.pc = "try"
  /\ call.step > Len(CliSteps(call.program))
  /\ call' = [call EXCEPT !.pc = "finally"]
  /\ UNCHANGED tables

\* catch (error) { console.error('Error:', error) }
CliCatch ==
  /\ call.op = "cli"
  /\ call.pc = "catch"
  /\ call' = [call EXCEPT !.pc = "finally", !.logged = TRUE]
  /\ UNCHANGED tables

\* finally { await close() }: close closes what the run holds; when the
\* close fails, its error leaves the async function
CliFinally(closeFails) ==
  /\ call.op = "cli"
  /\ call.pc = "finally"
  /\ call' = IF call.resource = "held"
             THEN [call EXCEPT !.pc = "settled", !.closeAttempted = TRUE,
                               !.closeFailed = closeFails,
                               !.resource = IF closeFails THEN "held" ELSE "closed"]
             ELSE [call EXCEPT !.pc = "settled"]
  /\ UNCHANGED tables

\* the process ends
CliExit(code) ==
  /\ call.op = "cli"
  /\ call.pc = "settled"
  /\ code \in ExitCodesOf(call)
  /\ call' = [call EXCEPT !.pc = "exited", !.exitCode = Some(code)]
  /\ UNCHANGED tables

InitCli ==
  /\ createTables
  /\ call \in {[op |-> "cli", program |-> p, pc |-> "try", step |-> 1, error |-> None,
                logged |-> FALSE, resource |-> "none", closeAttempted |-> FALSE,
                closeFailed |-> FALSE, exitCode |-> None] : p \in Programs}

NextCli ==
  \/ \E throws, launched \in BOOLEAN : CliStep(throws, launched)
  \/ CliTryDone
  \/ CliCatch
  \/ \E closeFails \in BOOLEAN : CliFinally(closeFails)
  \/ \E code \in ExitCodesUnhandled : CliExit(code)

SpecCli == InitCli /\ [][NextCli]_vars

\* the run is over after a step of its try block has thrown
CliFailed == call.op = "cli" /\ call.pc = "exited" /\ IsSome(call.error)

\* C14 as stated: a run in which a stage has thrown ends with a non-zero
\* exit code, and the close of what it held was attempted before it ended.
C14_FailureExitsNonZero ==
  CliFailed =>
    /\ call.exitCode # Some(0)
    /\ call.resource # "none" => call.closeAttempted

\* the half of C14 the runs keep: whatever a run held when a stage threw,
\* its close was attempted before the run ended
C14_CloseAttempted ==
  CliFailed /\ call.resource # "none" => call.closeAttempted

\* C21: a call of analyzePaper writes the paper's five analysis columns
\* exactly when the methodology analysis was made and gave a result and the
\* success assessment succeeded, and then the analysis row of the call is
\* in the Store and no other paper changes; otherwise no paper changes;
\* whenever the assessment of a paper with text succeeds the analysis row is
\* appended, whatever the methodology analysis gave; a paper analysed from
\* its abstract is left as it was.
C21_EnrichmentAfterAnalysis ==
  [][call'.op = "analyzePaper" =>
       LET paper == call'.paper
           env == call'.env
           asked == "methodology" \in Range(call'.requests)
           enriches == asked /\ IsSome(env.methodology) /\ IsSome(env.assessment)
       IN  /\ enriches =>
                /\ papers' = updatePaperMetadataRows(papers, paper.id,
                                Get(env.methodology), call'.fullText,
                                SectionsOf(paper, env))
                /\ \A i \in 1..Len(papers) :
                     /\ WithoutEnrichment(papers'[i]) = WithoutEnrichment(papers[i])
                     /\ papers[i].id = paper.id =>
                          /\ IsSome(papers'[i].methodology)
                          /\ IsSome(papers'[i].key_findings)
                     /\ papers[i].id # paper.id => papers'[i] = papers[i]
                /\ Len(analysis_results') = Len(analysis_results) + 1
                /\ analysis_results'[Len(analysis_results')].paper_id = paper.id
           /\ ~enriches => papers' = papers
           /\ (call'.fullText # <<>> /\ IsSome(env.assessment)) =>
                /\ IsSome(call'.ret)
                /\ analysis_results' =
                     insertAnalysisRows(analysis_results, Get(call'.ret))
           /\ call'.fullText = paper.abstract => papers' = papers]_vars

\* Witness of C21: the methodology request of a paper with a document
\* failed; its analysis row was written and the paper was not enriched.
C21_Witness ==
  /\ call.op = "analyzePaper"
  /\ call.requests = <<"methodology", "success">>
  /\ call.env.methodology = None
  /\ IsSome(call.ret)
  /\ HasAnalysis(analysis_results, call.paper.id)
  /\ \A i \in 1..Len(papers) : papers[i] = WithoutEnrichment(papers[i])

(***************************************************************************)
(* Search queries of the dataset finder: findDatasetsForIdea parses the    *)
(* idea's required_data and generateSearchQueries asks for queries, with   *)
(* the title and the first required data as its fallback.                  *)
(*                                                                         *)
(* A JavaScript value is a record [t, v]: t is "array" (v the sequence of  *)
(* its items, strings), "string", "number" or "literal" (true, false,      *)
(* null; v the text of the value).  JSON texts are arrays of strings       *)
(* without commas or quotes inside, strings, unsigned integers and the     *)
(* three literals.                                                         *)
(***************************************************************************)
Digits == {"0", "1", "2", "3", "4", "5", "6", "7", "8", "9"}

JsonLiterals == {<<"t", "r", "u", "e">>, <<"f", "a", "l", "s", "e">>, <<"n", "u", "l", "l">>}

RECURSIVE splitOn(_, _, _, _)
\* String.prototype.split(sep) for a one-character separator
splitOn(s, sep, i, cur) ==
  IF i > Len(s) THEN <<cur>>
  ELSE IF s[i] = sep THEN <<cur>> \o splitOn(s, sep, i + 1, <<>>)
  ELSE splitOn(s, sep, i + 1, Append(cur, s[i]))

\* the text is a JSON string: quoted, no quote inside
IsJsonString(text) ==
  /\ Len(text) >= 2
  /\ text[1] = "\"" /\ text[Len(text)] = "\""
  /\ \A i \in 2..(Len(text) - 1) : text[i] # "\""

Unquoted(text) == SubSeq(text, 2, Len(text) - 1)

RECURSIVE joinQuoted(_)
\* the items of an array as JSON.stringify writes them
joinQuoted(items) ==
  IF items = <<>> THEN <<>>
  ELSE <<"\"">> \o items[1] \o <<"\"">>
       \o (IF Len(items) > 1 THEN <<",">> \o joinQuoted(Tail(items)) ELSE <<>>)

\* JSON.stringify of an array of strings
JSONStringifyArray(items) == <<"[">> \o joinQuoted(items) \o <<"]">>

\* JSON.parse(text): the value, None when it throws SyntaxError
JSONParse(text) ==
  IF text = <<>> THEN None
  ELSE IF \A i \in 1..Len(text) : text[i] \in Digits
  THEN Some([t |-> "number", v |-> text])
  ELSE IF text \in JsonLiterals THEN Some([t |-> "literal", v |-> text])
  ELSE IF IsJsonString(text) THEN Some([t |-> "string", v |-> Unquoted(text)])
  ELSE IF text[1] = "[" /\ text[Len(text)] = "]"
  THEN LET inner == SubSeq(text, 2, Len(text) - 1)
           parts == IF inner = <<>> THEN <<>> ELSE splitOn(inner, ",", 1, <<>>)
       IN  IF \A k \in 1..Len(parts) : IsJsonString(parts[k])
           THEN Some([t |-> "array", v |-> [k \in 1..Len(parts) |-> Unquoted(parts[k])]])
           ELSE None
  ELSE None

\* requiredData of findDatasetsForIdea: JSON.parse(idea.required_data), and
\* [idea.required_data] when the parse throws
requiredDataOf(idea) ==
  LET parsed == JSONParse(idea.required_data)
  IN  IF IsSome(parsed) THEN Get(parsed)
      ELSE [t |-> "array", v |-> <<idea.required_data>>]

\* the number of required data the fallback takes
FallbackItems == 3

\* whether requiredData.slice exists: arrays and strings have it
HasSlice(value) == value.t \in {"array", "string"}

\* [...requiredData.slice(0, 3)]: the first items of an array; of a string,
\* the characters of its first three
spreadSlice(value) ==
  IF value.t = "array" THEN SubSeq(value.v, 1, Min(FallbackItems, Len(value.v)))
  ELSE [k \in 1..Min(FallbackItems, Len(value.v)) |-> <<value.v[k]>>]

\* result.queries || result.search_queries || []
ResponseQueries(result) ==
  IF IsSome(result.queries) THEN Get(result.queries)
  ELSE IF IsSome(result.search_queries) THEN Get(result.search_queries)
  ELSE <<>>

\* generateSearchQueries(idea, requiredData) with the parsed response
\* `generation` (None: the request or JSON.parse threw): the queries, and
\* whether the call threw (from its catch block)
generateSearchQueries(idea, requiredData, generation) ==
  IF IsSome(generation)
  THEN [queries |-> ResponseQueries(Get(generation)), threw |-> FALSE]
  ELSE IF HasSlice(requiredData)
  THEN [queries |-> <<idea.title>> \o spreadSlice(requiredData), threw |-> FALSE]
  ELSE [queries |-> <<>>, threw |-> TRUE]

(***************************************************************************)
(* Inputs of the query specification: one idea, its required_data drawn    *)
(* from JSON arrays of up to MaxRequired items, JSON scalars and texts     *)
(* that are not JSON, and one outcome of the query generation.             *)
(***************************************************************************)
MaxRequired == 4

RequiredItems == {<<"a">>, <<"b", "c">>}

RequiredLists == UNION {[1..n -> RequiredItems] : n \in 0..MaxRequired}

\* scalars as JSON.stringify writes them: strings, a number, literals
JsonScalars ==
  {<<"\"", "s", "u", "r", "v", "e", "y", "\"">>, <<"\"", "a", "\"">>, <<"\"", "\"">>,
   <<"5">>, <<"1", "2">>} \cup JsonLiterals

\* texts that JSON.parse rejects
NotJson == {<<"s", "a", "l", "e", "s">>, <<"[", "a", "]">>, <<"a", ",", "b">>, <<>>}

RequiredDataTexts ==
  {JSONStringifyArray(l) : l \in RequiredLists} \cup JsonScalars \cup NotJson

QueryTitle == <<"I", "d", "e", "a">>

\* parsed responses of the generation request; None: it failed
Generations ==
  {None,
   Some([queries |-> Some(<<<<"q">>>>), search_queries |-> None]),
   Some([queries |-> None, search_queries |-> None])}

\* the first lines of findDatasetsForIdea(idea): requiredData, searchQueries
SearchQueriesOf ==
  /\ call.op = "args" /\ call.for = "generateSearchQueries"
  /\ LET requiredData == requiredDataOf(call.idea)
         out == generateSearchQueries(call.idea, requiredData, call.generation)
     IN  call' = [op |-> "generateSearchQueries", idea |-> call.idea,
                  generation |-> call.generation, requiredData |-> requiredData,
                  queries |-> out.queries, threw |-> out.threw]
  /\ UNCHANGED tables

InitQueries ==
  /\ createTables
  /\ call \in {[op |-> "args", for |-> "generateSearchQueries",
                idea |-> [id |-> 1, title |-> QueryTitle, required_data |-> text],
                generation |-> g] :
                 text \in RequiredDataTexts, g \in Generations}

NextQueries == SearchQueriesOf

SpecQueries == InitQueries /\ [][NextQueries]_vars

\* the required-data items as the specification takes them: the items of a
\* JSON list; a JSON scalar or a text that is not JSON as the only item
RequiredItemsOf(text) ==
  LET parsed == JSONParse(text)
  IN  IF ~IsSome(parsed) THEN <<text>>
      ELSE IF Get(parsed).t = "array" THEN Get(parsed).v
      ELSE <<Get(parsed).v>>

\* C22 as stated: when the generation request fails, the queries searched
\* are the idea title followed by the first three required-data items, and
\* the call does not fail.
C22_QueryFallback ==
  (call.op = "generateSearchQueries" /\ ~IsSome(call.generation)) =>
    /\ ~call.threw
    /\ call.queries =
         <<call.idea.title>>
         \o SubSeq(RequiredItemsOf(call.idea.required_data), 1,
                   Min(3, Len(RequiredItemsOf(call.idea.required_data))))

\* the part of C22 the code keeps: the fallback for a JSON list and for a
\* text that is not JSON
C22_QueryFallbackOfLists ==
  (call.op = "generateSearchQueries" /\ ~IsSome(call.generation)
   /\ (~IsSome(JSONParse(call.idea.required_data))
       \/ Get(JSONParse(call.idea.required_data)).t = "array")) =>
    /\ ~call.threw
    /\ call.queries =
         <<call.idea.title>>
         \o SubSeq(RequiredItemsOf(call.idea.required_data), 1,
                   Min(3, Len(RequiredItemsOf(call.idea.required_data))))

\* the score the scoring response holds for a name: under the name itself,
\* else under the name inside its "scores" object; None when it holds none
GivenRelevance(scores, name) ==
  LET k == templateString(name)
  IN  IF k \in DOMAIN scores.own THEN Some(scores.own[k])
      ELSE IF IsSome(scores.scores) /\ k \in DOMAIN Get(scores.scores)
      THEN Some(Get(scores.scores)[k])
      ELSE None

\* C23 as stated: when the scoring request succeeds, every candidate's
\* relevance score is the score the response gives for its name, and 50
\* when the response gives none.
C23_ScoreFromResponse ==
  (call.op = "findDatasetsForIdea" /\ IsSome(call.env.scoring)) =>
    \A i \in 1..Len(call.scoredDatasets) :
      LET d == call.scoredDatasets[i]
          given == GivenRelevance(Get(call.env.scoring), d.name)
      IN  d.relevanceScore = IF IsSome(given) THEN given ELSE Some(50)

\* the part of C23 the code keeps: a score that is given and is not 0 is
\* the candidate's score, and a candidate without a given score gets 50
C23_NonZeroScoreFromResponse ==
  (call.op = "findDatasetsForIdea" /\ IsSome(call.env.scoring)) =>
    \A i \in 1..Len(call.scoredDatasets) :
      LET d == call.scoredDatasets[i]
          given == GivenRelevance(Get(call.env.scoring), d.name)
      IN  (given # Some(0)) =>
            d.relevanceScore = IF IsSome(given) THEN given ELSE Some(50)

\* the ids of the papers the next run of analyzeAllPapers would take
NextRunIds ==
  {p.id : p \in Range(getPapersWithoutAnalysis(papers, analysis_results))}

\* the query returns the papers without an analysis row, each once, in the
\* order of the table
AntiJoinExact ==
  getPapersWithoutAnalysis(papers, analysis_results)
    = SelectSeq(papers, LAMBDA p : ~HasAnalysis(analysis_results, p.id))

\* C24 as stated: getPapersWithoutAnalysis returns exactly the papers
\* without an analysis row, each once; a paper whose analysis returned null
\* or threw is taken again by the next run of analyzeAllPapers, and an
\* analysed paper is not.
C24_RetryUnlessAnalysed ==
  /\ AntiJoinExact
  /\ call.op = "analyzeAllPapers" =>
       \A k \in 1..Len(call.outcomes) :
         /\ call.outcomes[k] \in {"null", "threw"} => call.attempted[k] \in NextRunIds
         /\ HasAnalysis(analysis_results, call.attempted[k])
              => call.attempted[k] \notin NextRunIds

\* the part of C24 the code keeps: the query is the anti-join, a paper
\* whose analysis returned null is taken again, and a paper with an
\* analysis row is not, also when its analysis threw after the row was
\* written
C24_AntiJoin ==
  /\ AntiJoinExact
  /\ call.op = "analyzeAllPapers" =>
       \A k \in 1..Len(call.outcomes) :
         /\ call.outcomes[k] = "null" => call.attempted[k] \in NextRunIds
         /\ call.attempted[k] \in NextRunIds
              <=> ~HasAnalysis(analysis_results, call.attempted[k])

(***************************************************************************)
(* generateResearchIdeas, strategy by strategy: the requests it submits,   *)
(* the context each of them is given, the list of every strategy and the  *)
(* flat list returned.                                                     *)
(***************************************************************************)
\* ideas.unshift(...ideaSet): the new ideas put in front
pushIdeasInFront(ideas, ideaSet) == ideaSet \o ideas

\* ideas.push(...ideaSet)
pushIdeas(ideas, ideaSet) == ideas \o ideaSet

\* what generateIdeasByStrategy returns for a parsed response (None: the
\* request or JSON.parse threw): the ideas of the response, [] from its catch
ideaSetOf(response) ==
  IF ~IsSome(response) THEN <<>>
  ELSE LET ideas == ResponseIdeas(Get(response))
       IN  IF SavedCount(ideas) = Len(ideas) THEN ideas ELSE <<>>

IdeaB == CHOOSE idea \in IdeaPool : idea.title = Some("Idea B")

\* the responses of one strategy: a failed request, one idea, two ideas, an
\* idea followed by one without a title
StrategyResponses ==
  {None,
   Some([ideas |-> Some(<<IdeaA>>), research_ideas |-> None]),
   Some([ideas |-> None, research_ideas |-> Some(<<IdeaB, IdeaA>>)]),
   Some([ideas |-> Some(<<IdeaB, IdeaWithoutTitle>>), research_ideas |-> None])}

\* generateResearchIdeas up to its loop: the two reads and the early return
GenerateRead ==
  /\ call.op = "args" /\ call.for = "generateResearchIdeas"
  /\ LET topPapers == getTopPapers(papers, analysis_results, GeneratorTopLimit)
         patterns == getSuccessPatterns(success_patterns)
     IN  call' = [op |-> "generateResearchIdeas",
                  pc |-> IF topPapers = <<>> THEN "done" ELSE "loop",
                  topPapers |-> topPapers, patterns |-> patterns, i |-> 1,
                  requests |-> <<>>, responses |-> <<>>, sets |-> <<>>, ideas |-> <<>>,
                  ret |-> IF topPapers = <<>> THEN Some(<<>>) ELSE None]
  /\ UNCHANGED tables

\* one turn of the loop: generateIdeasByStrategy(strategy, topPapers,
\* patterns) submits its request, saves the ideas of the response, and its
\* list is pushed
GenerateForStrategy(response) ==
  /\ call.op = "generateResearchIdeas" /\ call.pc = "loop"
  /\ call.i <= Len(Strategies)
  /\ LET ideaSet == ideaSetOf(response)
     IN  /\ research_ideas' =
              IF IsSome(response)
              THEN SaveIdeas(research_ideas, ResponseIdeas(Get(response)))
              ELSE research_ideas
         /\ call' = [call EXCEPT
                       !.i = call.i + 1,
                       !.requests = Append(call.requests,
                                      [strategy |-> Strategies[call.i],
                                       topPapers |-> call.topPapers,
                                       patterns |-> call.patterns]),
                       !.responses = Append(call.responses, response),
                       !.sets = Append(call.sets, ideaSet),
                       !.ideas = pushIdeas(call.ideas, ideaSet)]
  /\ UNCHANGED <<papers, analysis_results, datasets, success_patterns>>

\* the loop is over: return ideas
GenerateReturn ==
  /\ call.op = "generateResearchIdeas" /\ call.pc = "loop"
  /\ call.i > Len(Strategies)
  /\ call' = [call EXCEPT !.pc = "done", !.ret = Some(call.ideas)]
  /\ UNCHANGED tables

InitGenerate ==
  /\ \E k \in 0..MaxStoredPapers : \E ids \in SUBSET (1..k) :
       /\ papers = PapersStored(k)
       /\ analysis_results = AnalysesStored(PapersStored(k), ids, k)
  /\ success_patterns \in {<<>>, <<PatternRow(1, PatternA)>>}
  /\ research_ideas = <<>>
  /\ datasets = <<>>
  /\ call = [op |-> "args", for |-> "generateResearchIdeas"]

NextGenerate ==
  \/ GenerateRead
  \/ \E response \in StrategyResponses : GenerateForStrategy(response)
  \/ GenerateReturn

SpecGenerate == InitGenerate /\ [][NextGenerate]_vars

RECURSIVE Flat(_)
\* the concatenation of the lists of a sequence, in its order
Flat(lists) == IF lists = <<>> THEN <<>> ELSE Head(lists) \o Flat(Tail(lists))

\* C25: a run of generateResearchIdeas that found papers submits one
\* request per strategy, in the order extension, combination, gap_filling,
\* replication, methodological, each with the papers and patterns read
\* before the first request; a strategy whose request failed contributes no
\* ideas and the strategies after it are still requested; the list
\* returned is the concatenation of the lists of the strategies in that
\* order.
C25_OneRequestPerStrategy ==
  (call.op = "generateResearchIdeas" /\ call.topPapers # <<>>) =>
    LET order == <<"extension", "combination", "gap_filling", "replication",
                   "methodological">>
        n == Len(call.requests)
    IN  /\ n = call.i - 1
        /\ n <= 5
        /\ \A k \in 1..n :
             /\ call.requests[k].strategy = order[k]
             /\ call.requests[k].topPapers = call.topPapers
             /\ call.requests[k].patterns = call.patterns
             /\ ~IsSome(call.responses[k]) => call.sets[k] = <<>>
             /\ (IsSome(call.responses[k])
                 /\ \A j \in 1..Len(ResponseIdeas(Get(call.responses[k]))) :
                      IsSome(ResponseIdeas(Get(call.responses[k]))[j].title))
                  => call.sets[k] = ResponseIdeas(Get(call.responses[k]))
        /\ call.ideas = Flat(call.sets)
        /\ call.topPapers = getTopPapers(papers, analysis_results, 50)
        /\ call.patterns = getSuccessPatterns(success_patterns)
        /\ call.pc = "done" =>
             /\ n = 5
             /\ call.ret = Some(Flat(call.sets))

\* Witness of C25: the requests of the first and the third strategy failed,
\* the other three gave ideas, and the run returned their lists in order.
C25_Witness ==
  /\ call.op = "generateResearchIdeas"
  /\ call.pc = "done"
  /\ Len(call.requests) = 5
  /\ call.responses[1] = None
  /\ call.responses[3] = None
  /\ call.sets[2] = <<IdeaA>>
  /\ call.sets[4] = <<IdeaB, IdeaA>>
  /\ call.sets[5] = <<IdeaA>>
  /\ call.ret = Some(<<IdeaA, IdeaB, IdeaA, IdeaA>>)

\* C26: every section extractSection returns is a string, made of
\* characters of the text, and analyzePaperStructure returns the six
\* sections abstract, introduction, methodology, results, discussion and
\* references; the section is the empty string when no line of the text
\* starts with one of its keywords, and when the first such line is the
\* last line of the text.
C26_SectionsAreStrings ==
  call.op = "extractSection" =>
    LET keywords == SectionKeywords(call.section)
        H == HeaderLines(FoldedLines(call.text), keywords)
        sections == analyzePaperStructure(call.text)
    IN  /\ DOMAIN sections = {"abstract", "introduction", "methodology", "results",
                              "discussion", "references"}
        /\ call.section \in DOMAIN sections
        /\ sections[call.section] = call.ret
        /\ \A i \in 1..Len(call.ret) : call.ret[i] \in Range(call.text)
        /\ H = {} => call.ret = <<>>
        /\ (H # {} /\ SetMin(H) = Len(splitLines(call.text))) => call.ret = <<>>

\* Witness of C26: the methodology header is the last of three lines and the
\* methodology section is empty, the lines before the header left out.
C26_Witness ==
  /\ call.op = "extractSection"
  /\ call.section = "methodology"
  /\ Len(splitLines(call.text)) = 3
  /\ HeaderLines(FoldedLines(call.text), SectionKeywords("methodology")) = {3}
  /\ call.ret = <<>>

(***************************************************************************)
(* Collector: PaperDownloader.scrapeJournalPapers, scrapeSAGE and          *)
(* downloadAllJournals.  A journal page is taken by what it gives: the     *)
(* page does not load, the article selector throws, or articles are found, *)
(* some of which cannot be parsed.                                         *)
(***************************************************************************)
\* Object.keys(JOURNALS)
JournalKeys == <<"JM", "JMR", "MS", "JCR", "JAMS", "IJRM">>

\* JOURNALS: name and publisher of each journal
JOURNALS ==
  [k \in Range(JournalKeys) |->
     CASE k = "JM" -> [name |-> "Journal of Marketing", publisher |-> "SAGE"]
       [] k = "JMR" -> [name |-> "Journal of Marketing Research", publisher |-> "SAGE"]
       [] k = "MS" -> [name |-> "Marketing Science", publisher |-> "INFORMS"]
       [] k = "JCR" -> [name |-> "Journal of Consumer Research", publisher |-> "OUP"]
       [] k = "JAMS" -> [name |-> "Journal of the Academy of Marketing Science",
                         publisher |-> "Springer"]
       [] k = "IJRM" -> [name |-> "International Journal of Research in Marketing",
                         publisher |-> "Elsevier"]]

\* the journalKey scrapeSAGE writes into every record
SageJournalKey == "JM"

RECURSIVE sageRecords(_, _, _, _)
\* the loop of scrapeSAGE over the first `upto` articles from article i on:
\* a record per article, none for an article whose parsing threw
sageRecords(journal, page, i, upto) ==
  IF i > upto THEN <<>>
  ELSE (IF i \in page.broken THEN <<>>
        ELSE <<[title |-> page.titles[i], journal |-> journal.name,
                journalKey |-> SageJournalKey]>>)
       \o sageRecords(journal, page, i + 1, upto)

\* scrapeSAGE(journal, limit): [] when the selector threw
scrapeSAGE(journal, limit, page) ==
  IF ~page.selects THEN <<>>
  ELSE sageRecords(journal, page, 1, Min(Len(page.titles), limit))

\* scrapeJournalPapers(journalKey, limit): [] when the page did not load;
\* only the SAGE scraper is implemented, the others return []
scrapeJournalPapers(journalKey, limit, page) ==
  IF ~page.loads THEN <<>>
  ELSE IF JOURNALS[journalKey].publisher = "SAGE"
  THEN scrapeSAGE(JOURNALS[journalKey], limit, page)
  ELSE <<>>

\* for (const journalKey of Object.keys(JOURNALS)): a journal is left
JournalsLeft(c) == c.i <= Len(JournalKeys)

\* one turn of the loop of downloadAllJournals: the next journal is scraped
\* and its papers are pushed
ScrapeNext(page) ==
  /\ call.op = "downloadAllJournals" /\ call.pc = "loop"
  /\ JournalsLeft(call)
  /\ LET key == JournalKeys[call.i]
         found == scrapeJournalPapers(key, call.limit, page)
     IN  call' = [call EXCEPT !.i = call.i + 1,
                    !.visited = Append(call.visited, key),
                    !.pages = Append(call.pages, page),
                    !.scraped = Append(call.scraped, found),
                    !.allPapers = call.allPapers \o found]
  /\ UNCHANGED tables

\* return allPapers
DownloadReturn ==
  /\ call.op = "downloadAllJournals" /\ call.pc = "loop"
  /\ ~JournalsLeft(call)
  /\ call' = [call EXCEPT !.pc = "done", !.ret = Some(call.allPapers)]
  /\ UNCHANGED tables

(***************************************************************************)
(* Inputs of the collector: the limit of a run, up to MaxLimit, and pages  *)
(* of up to MaxArticles articles.                                          *)
(***************************************************************************)
MaxLimit == 2

MaxArticles == 2

\* the pages of a journal: only a SAGE page gives articles
PagesOf(journalKey) ==
  {[loads |-> FALSE, selects |-> FALSE, titles |-> <<>>, broken |-> {}]}
  \cup
  (IF JOURNALS[journalKey].publisher = "SAGE"
   THEN {[loads |-> TRUE, selects |-> FALSE, titles |-> <<>>, broken |-> {}]}
        \cup {[loads |-> TRUE, selects |-> TRUE,
               titles |-> [k \in 1..n |-> <<journalKey, k>>], broken |-> b] :
                n \in 0..MaxArticles, b \in SUBSET {1}}
   ELSE {[loads |-> TRUE, selects |-> TRUE, titles |-> <<>>, broken |-> {}]})

InitDownload ==
  /\ createTables
  /\ \E limit \in 1..MaxLimit :
       call = [op |-> "downloadAllJournals", pc |-> "loop", limit |-> limit, i |-> 1,
               visited |-> <<>>, pages |-> <<>>, scraped |-> <<>>, allPapers |-> <<>>,
               ret |-> None]

NextDownload ==
  \/ /\ call.op = "downloadAllJournals" /\ call.pc = "loop" /\ JournalsLeft(call)
     /\ \E page \in PagesOf(JournalKeys[call.i]) : ScrapeNext(page)
  \/ DownloadReturn

SpecDownload == InitDownload /\ [][NextDownload]_vars

\* C28 as stated: every record scrapeJournalPapers returns carries the name
\* and the key of the journal that was scraped, and at most `limit` records
\* are returned for a journal.
C28_RecordsOfJournal ==
  call.op = "downloadAllJournals" =>
    \A k \in 1..Len(call.scraped) :
      /\ Len(call.scraped[k]) <= call.limit
      /\ \A j \in 1..Len(call.scraped[k]) :
           /\ call.scraped[k][j].journal = JOURNALS[call.visited[k]].name
           /\ call.scraped[k][j].journalKey = call.visited[k]

\* the part of C28 the code keeps: the journal name and the limit
C28_NameAndLimit ==
  call.op = "downloadAllJournals" =>
    \A k \in 1..Len(call.scraped) :
      /\ Len(call.scraped[k]) <= call.limit
      /\ \A j \in 1..Len(call.scraped[k]) :
           call.scraped[k][j].journal = JOURNALS[call.visited[k]].name

(***************************************************************************)
(* Recovery of collaborator failures: the four searches of one query, each *)
(* of which may fail, and the journals of downloadAllJournals.             *)
(***************************************************************************)
\* what a repository search returns: the candidates of the response, and []
\* from its catch when the request failed
searchOutcome(s, outcome) ==
  IF outcome.failed THEN <<>>
  ELSE IF s = "dataGov" THEN searchDataGov(outcome.results)
  ELSE IF s = "kaggle" THEN searchKaggle(outcome.results)
  ELSE IF s = "huggingFace" THEN searchHuggingFace(outcome.results)
  ELSE searchGeneric(outcome.results)

\* a Promise.all over searches that reject: one failure leaves nothing
flatOfQueryAllOrNothing(outcomes) ==
  IF \E s \in Searches : outcomes[s].failed THEN <<>>
  ELSE searchOutcome("dataGov", outcomes["dataGov"])
       \o searchOutcome("kaggle", outcomes["kaggle"])
       \o searchOutcome("huggingFace", outcomes["huggingFace"])
       \o searchOutcome("generic", outcomes["generic"])

\* datasets.flat() of the four results of Promise.all
flatOfQuery(outcomes) ==
  searchOutcome("dataGov", outcomes["dataGov"])
  \o searchOutcome("kaggle", outcomes["kaggle"])
  \o searchOutcome("huggingFace", outcomes["huggingFace"])
  \o searchOutcome("generic", outcomes["generic"])

\* the outcomes of a search: failed, or one of its results
SearchOutcomes(s) ==
  {[failed |-> TRUE, results |-> <<>>]}
  \cup {[failed |-> FALSE, results |-> r] : r \in SearchResults(s)}

\* the four searches of one query of findDatasetsForIdea
SearchQuery ==
  /\ call.op = "args" /\ call.for = "searchQuery"
  /\ call' = [op |-> "searchQuery", outcomes |-> call.outcomes,
              flat |-> flatOfQuery(call.outcomes)]
  /\ UNCHANGED tables

InitRecovery ==
  \/ InitDownload
  \/ /\ createTables
     /\ \E outcomes \in [Searches -> UNION {SearchOutcomes(s) : s \in Searches}] :
          /\ \A s \in Searches : outcomes[s] \in SearchOutcomes(s)
          /\ call = [op |-> "args", for |-> "searchQuery", outcomes |-> outcomes]

NextRecovery ==
  \/ SearchQuery
  \/ /\ call.op = "downloadAllJournals" /\ call.pc = "loop" /\ JournalsLeft(call)
     /\ \E page \in PagesOf(JournalKeys[call.i]) : ScrapeNext(page)
  \/ DownloadReturn

SpecRecovery == InitRecovery /\ [][NextRecovery]_vars

\* C27: a repository search that fails returns [] and the results of the
\* other searches of the query are all in the merged list, in the order of
\* the four searches; a journal whose page does not load or whose selector
\* throws gives [], every journal is visited once, in order, whatever the
\* journals before it gave, and downloadAllJournals returns the papers of
\* the journals that succeeded.
C27_LocalRecovery ==
  /\ call.op = "searchQuery" =>
       /\ \A s \in Searches :
            call.outcomes[s].failed => searchOutcome(s, call.outcomes[s]) = <<>>
       /\ call.flat =
            Flat([k \in 1..4 |->
                    LET s == <<"dataGov", "kaggle", "huggingFace", "generic">>[k]
                    IN  IF call.outcomes[s].failed THEN <<>>
                        ELSE searchOutcome(s, call.outcomes[s])])
       /\ \A s \in Searches :
            \A j \in 1..Len(searchOutcome(s, call.outcomes[s])) :
              searchOutcome(s, call.outcomes[s])[j] \in Range(call.flat)
  /\ call.op = "downloadAllJournals" =>
       /\ call.visited = SubSeq(JournalKeys, 1, call.i - 1)
       /\ \A k \in 1..Len(call.pages) :
            (~call.pages[k].loads \/ ~call.pages[k].selects) => call.scraped[k] = <<>>
       /\ call.allPapers = Flat(call.scraped)
       /\ call.pc = "done" =>
            /\ call.visited = JournalKeys
            /\ call.ret = Some(Flat(call.scraped))

\* Witness of C27: the first journal's page did not load, the second
\* journal gave papers, every journal was visited and those papers were
\* returned.
C27_Witness ==
  /\ call.op = "downloadAllJournals"
  /\ call.pc = "done"
  /\ ~call.pages[1].loads
  /\ call.scraped[2] # <<>>
  /\ call.ret = Some(call.scraped[2])
  /\ Len(call.visited) = 6

\* C29: the five weights of the composite sum to 1, and when every
\* sub-score of the assessment response lies in 0..100, a missing one
\* counting 0, the success score analyzePaper persists and returns lies in
\* 0..100 (scores in hundredths).
C29_ScoreInRange ==
  /\ W_data_quality + W_methodology_rigor + W_theoretical_contribution
       + W_novelty + W_impact = Scale
  /\ (call.op = "analyzePaper" /\ IsSome(call.ret)) =>
       LET a == Get(call.env.assessment)
           given(o) == IF IsSome(o) THEN Get(o) ELSE 0
           subScores == {given(a.data_quality_score), given(a.methodology_rigor),
                         given(a.theoretical_contribution), given(a.novelty_score),
                         given(a.impact_potential)}
           row == analysis_results[Len(analysis_results)]
       IN  (\A x \in subScores : x \in 0..100) =>
             /\ row.success_score \in 0..(100 * Scale)
             /\ Get(call.ret).successScore = row.success_score

\* Witness of C29: an assessment of five times 100 was persisted with the
\* score 100, and one without any sub-score would give 0.
C29_Witness ==
  /\ call.op = "analyzePaper"
  /\ IsSome(call.ret)
  /\ call.env.assessment =
       Some(Assessment(Some(100), Some(100), Some(100), Some(100), Some(100)))
  /\ analysis_results[Len(analysis_results)].success_score = 100 * Scale
  /\ successScoreOf(EmptyAssessment) = 0

(***************************************************************************)
(* Dataset Matcher, the merge of the concurrent searches: each search of a *)
(* query returns its candidates when it completes, in any order, and the   *)
(* array Promise.all resolves to is flattened onto allDatasets.  The order *)
(* of completion is kept beside the results, and the raw responses of the  *)
(* queries are kept to state what the outcome depends on.                  *)
(***************************************************************************)
\* the order of the promises in the array given to Promise.all
SearchOrder == <<"dataGov", "kaggle", "huggingFace", "generic">>

\* what the search s returns for the response found
candidatesOf(s, found) ==
  IF s = "dataGov" THEN searchDataGov(found)
  ELSE IF s = "kaggle" THEN searchKaggle(found)
  ELSE IF s = "huggingFace" THEN searchHuggingFace(found)
  ELSE searchGeneric(found)

\* an array of the results in the order in which the searches completed
promiseAllAsCompleted(settled, order) ==
  [k \in 1..Len(SearchOrder) |-> Get(settled[order[k]])]

\* what await Promise.all([...]) resolves to: the results in the order of
\* the promises, whatever the order of completion
promiseAll(settled, order) ==
  [k \in 1..Len(SearchOrder) |-> Get(settled[SearchOrder[k]])]

\* the responses of the searches: the suggestions may name a dataset of the
\* catalog, under the catalog's source
MergeResponses(s) ==
  IF s = "dataGov" THEN {<<>>, <<[title |-> FoundName(1), name |-> "catalog"]>>}
  ELSE IF s = "huggingFace" THEN {<<>>, <<[id |-> FoundName(2)]>>}
  ELSE IF s = "generic"
  THEN {<<>>,
        <<[name |-> FoundName(1), source |-> Some(s_DataGov), url |-> Some("suggested")]>>,
        <<[name |-> FoundName(3), source |-> None, url |-> Some("suggested")]>>}
  ELSE {<<>>}

\* the scoring responses: a failure, no score at all, a score for one name
MergeScorings ==
  {None, Some([own |-> <<>>, scores |-> None]),
   Some([own |-> [k \in {FoundName(2)} |-> 90], scores |-> None])}

\* the loop head: the next query is taken and its four searches are started
StartSearches ==
  /\ call.pc = "loop"
  /\ call.q < call.queries
  /\ call' = [call EXCEPT !.q = call.q + 1, !.pc = "await"]
  /\ UNCHANGED tables

\* a search that has not completed completes and returns its candidates
SettleSearch(s, found) ==
  /\ call.pc = "await"
  /\ ~IsSome(call.settled[s])
  /\ call' = [call EXCEPT !.settled[s] = Some(candidatesOf(s, found)),
                          !.raw[s] = found,
                          !.order = Append(call.order, s)]
  /\ UNCHANGED tables

\* Promise.all resolves: allDatasets.push(...datasets.flat()), then the delay
PromiseAllResolves ==
  /\ call.pc = "await"
  /\ \A s \in Searches : IsSome(call.settled[s])
  /\ call' = [call EXCEPT
       !.pc = "loop",
       !.allDatasets = call.allDatasets \o Flat(promiseAll(call.settled, call.order)),
       !.responses = Append(call.responses, call.raw),
       !.reversed = call.reversed \/ call.order = [k \in 1..Len(SearchOrder) |-> SearchOrder[Len(SearchOrder) + 1 - k]],
       !.settled = [s \in Searches |-> None],
       !.raw = NothingFound,
       !.order = <<>>]
  /\ UNCHANGED tables

\* after the last query: deduplication, scoring and persistence
FinishMerge(scoring) ==
  /\ call.pc = "loop"
  /\ call.q = call.queries
  /\ LET uniqueDatasets == deduplicateDatasets(call.allDatasets)
         top == topDatasets(scoreDatasets(uniqueDatasets, scoring))
         saved == saveDatasets(datasets, top, 1, call.idea.id)
     IN  /\ datasets' = saved.rows
         /\ call' = [call EXCEPT !.pc = "done", !.scoring = scoring,
                                 !.uniqueDatasets = uniqueDatasets,
                                 !.threw = saved.threw,
                                 !.ret = IF saved.threw THEN None ELSE Some(top)]
  /\ UNCHANGED <<papers, analysis_results, research_ideas, success_patterns>>

InitMerge ==
  /\ createTables
  /\ \E n \in 0..MaxQueries :
       call = [op |-> "findDatasetsForIdea", pc |-> "loop",
               idea |-> [id |-> 1, title |-> "Idea A"],
               queries |-> n, q |-> 0,
               settled |-> [s \in Searches |-> None], raw |-> NothingFound,
               order |-> <<>>, reversed |-> FALSE, responses |-> <<>>,
               allDatasets |-> <<>>, uniqueDatasets |-> <<>>, scoring |-> None,
               ret |-> None, threw |-> FALSE]

NextMerge ==
  \/ StartSearches
  \/ \E s \in Searches : \E found \in MergeResponses(s) : SettleSearch(s, found)
  \/ PromiseAllResolves
  \/ \E scoring \in MergeScorings : FinishMerge(scoring)

SpecMerge == InitMerge /\ [][NextMerge]_vars

\* C30: the outcome of findDatasetsForIdea does not depend on the order in
\* which the four searches of a query complete: after every query
\* allDatasets is the responses of the queries so far merged in the order
\* Data.gov, Kaggle, Hugging Face, suggestions, and the deduplicated list,
\* the list returned and the rows persisted are those the responses and
\* the scoring response determine.
C30_MergeOrderFixed ==
  [][/\ call'.pc = "loop" => call'.allDatasets = searchAll(call'.responses, 1)
     /\ call'.pc = "done" =>
          LET out == findDatasetsForIdeaOutcome(call.idea,
                       [found |-> call'.responses, scoring |-> call'.scoring])
          IN  /\ call'.allDatasets = out.allDatasets
              /\ call'.uniqueDatasets = out.uniqueDatasets
              /\ call'.ret = out.ret
              /\ datasets' = out.datasets]_vars

\* Witness of C30: the four searches of the one query completed in the
\* reverse of the order of the array, the suggestions named the dataset of
\* the catalog, and the candidate that survived and was persisted is the
\* catalog's.
C30_Witness ==
  /\ call.pc = "done"
  /\ call.queries = 1
  /\ call.reversed
  /\ call.responses[1].dataGov # <<>>
  /\ call.responses[1].generic # <<>>
  /\ call.responses[1].generic[1].name = FoundName(1)
  /\ Len(call.allDatasets) = 2
  /\ Len(call.uniqueDatasets) = 1
  /\ Len(datasets) = 1
  /\ datasets[1].url = "catalog"

====
